---- MODULE Spec2Model ----
(***************************************************************************)
(* pyeventsystem: the subscription registry, the handler cache, the        *)
(* priority ordering and the chain-of-responsibility invocation protocol   *)
(* of SimpleEventDispatcher and the three event handler classes            *)
(* (src/pyeventsystem/events.py).                                          *)
(*                                                                         *)
(* Strings (event names and patterns) are sequences of one-character       *)
(* strings.  Handler objects are numbered 1, 2, ... in creation order;     *)
(* None is 0 and a missing dictionary key is Absent.  The value a callback *)
(* returns is the number of its handler, so that the callbacks of two      *)
(* handlers never return the same value and never return None.             *)
(***************************************************************************)
EXTENDS Integers, Sequences, FiniteSets, TLC

VARIABLES handlers, events, handler_cache, ctl, stack, event_args, log, ret,
          prev, middleware_list, event_handlers, middleware_events,
          bound_method, object_events, cloudbridge

vars == <<handlers, events, handler_cache, ctl, stack, event_args, log, ret,
          prev, middleware_list, event_handlers, middleware_events,
          bound_method, object_events, cloudbridge>>

---------------------------------------------------------------------------
(* Bounds *)

\* handler objects ever constructed in one behaviour of Spec
MaxHandlers == 2
\* entries the registry ever holds at once in Spec (a handler subscribed
\* twice has two entries)
MaxEntries == 2
\* priorities are drawn from 1..MaxPrio in Spec
MaxPrio == 2
\* handler objects ever constructed in one behaviour of SpecChain
MaxChain == 3
\* priorities are drawn from 1..MaxChainPrio in SpecChain
MaxChainPrio == 3
\* handler objects ever discovered in one behaviour of SpecMiddleware
MaxGroupHandlers == 4
\* handler objects ever discovered in one behaviour of SpecDirect
MaxDirectHandlers == 2
\* entries the registry ever holds at once in SpecDirect
MaxDirectEntries == 3
\* handler objects ever constructed in one behaviour of SpecMidFlight
MaxFlightHandlers == 2
\* priorities are drawn from 1..MaxFlightPrio in SpecMidFlight
MaxFlightPrio == 2
\* handler objects ever constructed in one behaviour of SpecDecorator
MaxDecoratorHandlers == 3
\* priorities of the handlers subscribed directly in SpecDecorator
MaxDecoratorPrio == 3
\* the handlers and the priorities of the registries whose conflicts are
\* resolved
MaxConflictHandlers == 4
MaxConflictPrio == 2
\* the handlers and the priorities of the chains whose dispatch is followed
\* to its end
MaxNestedHandlers == 3
MaxNestedPrio == 3

None == 0
Absent == -1
NoEntry == <<-1>>

Priorities == 1..MaxPrio
ChainPriorities == 1..MaxChainPrio

\* subscription patterns and event names of Spec
Patterns == { <<"a", ".", "*">>, <<"b">> }
EventNames == { <<"a", ".", "b">>, <<"b">> }
\* iteration order of self.__events.keys(); the order only decides the order
\* of handlers of equal priority, which no chain that is returned contains
PatternOrder == << <<"a", ".", "*">>, <<"b">> >>

\* the pattern, the event name and the pass-through arguments of SpecChain
ChainPattern == <<"a", ".", "*">>
ChainEvent == <<"a", ".", "b">>
Senders == {"sender"}
ArgVals == {"args"}

\* the middleware groups, and the handlers their decorated methods declare,
\* in the order discover_handlers finds the methods
Groups == {"G1", "G2"}
\* the objects with a method decorated with @dispatch, which the manager
\* wraps into an AutoDiscoveredMiddleware
Objects == {"D1", "D2"}
\* the event of their decorators
DecoratorEvent == <<"b">>
DecoratorPriorities == 1..MaxDecoratorPrio
FlightPriorities == 1..MaxFlightPrio
ConflictPriorities == 1..MaxConflictPrio
NestedPriorities == 1..MaxNestedPrio

Kinds == {"Observing", "Intercepting", "Implementing"}
\* behaviours of a callback: an Observer's or Implementer's callback returns
\* its value; an Interceptor's callback either invokes the next_handler it
\* was given and returns that result ("pass"), or returns its own value
\* without invoking it ("stop"), or invokes the next_handler when there is
\* one and returns its own value when there is none ("pass_or_own")
Callbacks == {"return", "pass", "stop", "pass_or_own"}
InterceptorCallbacks == {"pass", "stop", "pass_or_own"}

---------------------------------------------------------------------------
(* fnmatch.translate(pattern) followed by re.search(regex, name) *)

RECURSIVE RegexMatchAt(_, _)
\* the regular expression fnmatch.translate(p), (?s:...)\Z, matched with its
\* first character at the start of s: '*' is '.*', '?' is '.', any other
\* character is itself, and \Z holds at the end of s only
RegexMatchAt(p, s) ==
    IF p = <<>> THEN s = <<>>
    ELSE IF Head(p) = "*"
         THEN \/ RegexMatchAt(Tail(p), s)
              \/ s # <<>> /\ RegexMatchAt(p, Tail(s))
    ELSE IF Head(p) = "?"
         THEN s # <<>> /\ RegexMatchAt(Tail(p), Tail(s))
    ELSE s # <<>> /\ Head(s) = Head(p) /\ RegexMatchAt(Tail(p), Tail(s))

\* re.search(fnmatch.translate(p), s): the match may start at any position
ReSearch(p, s) ==
    \E i \in 1..(Len(s) + 1) : RegexMatchAt(p, SubSeq(s, i, Len(s)))

---------------------------------------------------------------------------
(* Sequence helpers *)

RECURSIVE SeqToSet(_)
SeqToSet(s) == IF s = <<>> THEN {} ELSE {Head(s)} \cup SeqToSet(Tail(s))

\* list.remove(x): drops the first occurrence of x (x is in s)
RECURSIVE RemoveFirst(_, _)
RemoveFirst(s, x) ==
    IF s = <<>> THEN <<>>
    ELSE IF Head(s) = x THEN Tail(s)
    ELSE <<Head(s)>> \o RemoveFirst(Tail(s), x)

---------------------------------------------------------------------------
(* BaseEventHandler *)

\* BaseEventHandler.__init__
NewHandler(pattern, prio, kind, cb) ==
    [event_pattern |-> pattern, priority |-> prio, kind |-> kind,
     callback |-> cb, dispatcher |-> None]

\* the only dispatcher object of the model
Dispatcher == 1

\* the value the callback of handler h returns
CallbackValue(h) == h

\* a comparison of the handler objects by their age
Lt_ByAge(h1, h2) == h1 < h2

\* BaseEventHandler.__lt__
Lt(h1, h2) == handlers[h1].priority < handlers[h2].priority

RECURSIVE BisectLeft_Right(_, _, _, _)
\* bisect.bisect_right instead: the position after the elements equal to x
BisectLeft_Right(a, x, lo, hi) ==
    IF lo < hi
    THEN LET mid == (lo + hi) \div 2
         IN  IF Lt(x, a[mid + 1]) THEN BisectLeft_Right(a, x, lo, mid)
             ELSE BisectLeft_Right(a, x, mid + 1, hi)
    ELSE lo

RECURSIVE BisectLeft(_, _, _, _)
\* bisect.bisect_left(a, x): lo and hi are 0-based as in the library
BisectLeft(a, x, lo, hi) ==
    IF lo < hi
    THEN LET mid == (lo + hi) \div 2
         IN  IF Lt(a[mid + 1], x) THEN BisectLeft(a, x, mid + 1, hi)
             ELSE BisectLeft(a, x, lo, mid)
    ELSE lo

---------------------------------------------------------------------------
(* SimpleEventDispatcher: resolution and cache *)

RECURSIVE MatchingHandlers_All(_, _)
\* a resolution that collects the handlers of every pattern
MatchingHandlers_All(keys, ev) ==
    IF keys = <<>> THEN <<>>
    ELSE events[Head(keys)] \o MatchingHandlers_All(Tail(keys), ev)

RECURSIVE MatchingHandlers(_, _)
\* for key in self.__events.keys(): if re.search(...): cache_list.extend(...)
MatchingHandlers(keys, ev) ==
    IF keys = <<>> THEN <<>>
    ELSE (IF ReSearch(Head(keys), ev) THEN events[Head(keys)] ELSE <<>>)
         \o MatchingHandlers(Tail(keys), ev)

\* a sort by the age of the handler objects instead
InsertByPriority_ByAge(sorted, h) ==
    LET k == Cardinality({i \in 1..Len(sorted) : sorted[i] <= h})
    IN  SubSeq(sorted, 1, k) \o <<h>> \o SubSeq(sorted, k + 1, Len(sorted))

\* one step of the stable sort: h goes after every element whose priority is
\* not greater than its own
InsertByPriority(sorted, h) ==
    LET k == Cardinality({i \in 1..Len(sorted) :
                 handlers[sorted[i]].priority <= handlers[h].priority})
    IN  SubSeq(sorted, 1, k) \o <<h>> \o SubSeq(sorted, k + 1, Len(sorted))

RECURSIVE SortFrom(_, _)
SortFrom(sorted, rest) ==
    IF rest = <<>> THEN sorted
    ELSE SortFrom(InsertByPriority(sorted, Head(rest)), Tail(rest))

\* a resolution that keeps the order of subscription
SortByPriority_Unsorted(s) == s

\* cache_list.sort(key=lambda h: h.priority)
SortByPriority(s) == SortFrom(<<>>, s)

\* the largest priority found twice instead
GuiltyPrio_Largest(priority_list, guilty_prio) ==
    LET twice == {priority_list[i] : i \in
                     {k \in 1..Len(priority_list) :
                         \E j \in 1..Len(priority_list) :
                            j # k /\ priority_list[j] = priority_list[k]}}
    IN  CHOOSE p \in twice : \A q \in twice : q <= p

RECURSIVE GuiltyPrio(_, _)
\* the loop that looks for the first priority equal to its predecessor
GuiltyPrio(priority_list, guilty_prio) ==
    IF priority_list = <<>> THEN guilty_prio
    ELSE IF Head(priority_list) = guilty_prio THEN guilty_prio
    ELSE GuiltyPrio(Tail(priority_list), Head(priority_list))

Resolution(exc, chain, prio, names) ==
    [exc |-> exc, chain |-> chain, priority |-> prio, names |-> names]

\* a resolution without the check that the priorities are unique
CreateHandlerCache_Unchecked(ev) ==
    Resolution("none", SortByPriority(MatchingHandlers(PatternOrder, ev)),
               None, <<>>)

\* priority_list = [h.priority for h in cache_list]
PriorityList(cache_list) ==
    [i \in 1..Len(cache_list) |-> handlers[cache_list[i]].priority]

\* the HandlerException of _create_handler_cache: the priority found twice
\* and the handlers that have it
Conflicting(cache_list, guilty_prio) ==
    LET IsGuilty(h) == handlers[h].priority = guilty_prio
    IN  Resolution("HandlerException", <<>>, guilty_prio,
                   SelectSeq(cache_list, IsGuilty))

\* the check of _create_handler_cache that the priorities are unique
CheckUnique(cache_list, priority_list) ==
    IF Cardinality(SeqToSet(priority_list)) # Len(priority_list)
    THEN Conflicting(cache_list, GuiltyPrio(priority_list, None))
    ELSE Resolution("none", cache_list, None, <<>>)

\* the sorted list of _create_handler_cache, checked
Checked(cache_list) == CheckUnique(cache_list, PriorityList(cache_list))

\* SimpleEventDispatcher._create_handler_cache
CreateHandlerCache(ev) ==
    Checked(SortByPriority(MatchingHandlers(PatternOrder, ev)))

\* self.__handler_cache[event] = self._create_handler_cache(event): nothing
\* is stored when the resolution r raised
StoreResolution(cache, ev, r) ==
    IF r.exc # "none"
    THEN [cache |-> cache, res |-> r]
    ELSE [cache |-> [cache EXCEPT ![ev] = r.chain], res |-> r]

\* SimpleEventDispatcher.get_handlers_for_event, run on the cache `cache`:
\* the cache it leaves and what it returns or raises
GetHandlersForEvent(cache, ev) ==
    IF cache[ev] # NoEntry
    THEN [cache |-> cache, res |-> Resolution("none", cache[ev], None, <<>>)]
    ELSE StoreResolution(cache, ev, CreateHandlerCache(ev))

\* an invalidation that tests the pattern against the whole cached name,
\* while the resolution searches the name for it
InvalidateCache_Anchored(cache, event_pattern) ==
    [key \in DOMAIN cache |->
        IF RegexMatchAt(event_pattern, key) THEN NoEntry ELSE cache[key]]

\* SimpleEventDispatcher._invalidate_cache
InvalidateCache(cache, event_pattern) ==
    [key \in DOMAIN cache |->
        IF ReSearch(event_pattern, key) THEN NoEntry ELSE cache[key]]

\* what _get_next_handler returns or raises
Next_(exc, next) == [exc |-> exc, next |-> next]

\* a lookup that goes back to the first handler behind the last one
NextAt_Wrapping(h, handler_list, pos) ==
    IF pos >= Len(handler_list) THEN Next_("IndexError", None)
    ELSE IF handler_list[pos + 1] # h THEN Next_("AssertionError", None)
    ELSE IF pos < Len(handler_list) - 1
    THEN Next_("none", handler_list[pos + 2])
    ELSE Next_("none", handler_list[1])

\* a lookup that passes over the handler behind h when one more follows
NextAt_Skipping(h, handler_list, pos) ==
    IF pos >= Len(handler_list) THEN Next_("IndexError", None)
    ELSE IF handler_list[pos + 1] # h THEN Next_("AssertionError", None)
    ELSE IF pos < Len(handler_list) - 2
    THEN Next_("none", handler_list[pos + 3])
    ELSE IF pos < Len(handler_list) - 1
    THEN Next_("none", handler_list[pos + 2])
    ELSE Next_("none", None)

\* _get_next_handler of handler h once handler_list is resolved and pos is
\* the position bisect_left gave
NextAt(h, handler_list, pos) ==
    IF pos >= Len(handler_list) THEN Next_("IndexError", None)
    ELSE IF handler_list[pos + 1] # h THEN Next_("AssertionError", None)
    ELSE IF pos < Len(handler_list) - 1
    THEN Next_("none", handler_list[pos + 2])
    ELSE Next_("none", None)

\* _get_next_handler of handler h given g, what get_handlers_for_event left
\* and returned
NextIn(h, g) ==
    [cache |-> g.cache] @@
    (IF g.res.exc # "none" THEN Next_(g.res.exc, None)
     ELSE NextAt(h, g.res.chain,
                 BisectLeft(g.res.chain, h, 0, Len(g.res.chain))))

\* a lookup in the chain the dispatch in flight resolved when it started
GetNextHandler_Precomputed(h, ev, cache) ==
    [cache |-> cache] @@
    NextAt(h, ret.chain, BisectLeft(ret.chain, h, 0, Len(ret.chain)))

\* BaseEventHandler._get_next_handler of handler h, run on the cache `cache`
GetNextHandler(h, ev, cache) ==
    IF handlers[h].dispatcher = None
    THEN [cache |-> cache, exc |-> "AttributeError", next |-> None]
    ELSE NextIn(h, GetHandlersForEvent(cache, ev))

---------------------------------------------------------------------------
(* State *)

Idle == ctl.state = "idle"

Control(state, h, val, args) ==
    [state |-> state, h |-> h, val |-> val, args |-> args]

IdleControl == Control("idle", None, None, "none")

\* the event_args dictionary of the dispatch in flight
EventArgs(ev, sender, next_handler, result) ==
    [event |-> ev, sender |-> sender, next_handler |-> next_handler,
     result |-> result]

NoEventArgs == EventArgs(<<>>, "none", Absent, Absent)

\* what the last call of the public API returned or raised
Ret(op, ev, exc, chain, val, prio, names) ==
    [op |-> op, event |-> ev, exc |-> exc, chain |-> chain, val |-> val,
     priority |-> prio, names |-> names, sender |-> "none", args |-> "none"]

\* the same for a call of dispatch(sender, ev, args)
DispatchRet(sender, ev, args, exc, chain, prio, names) ==
    [Ret("dispatch", ev, exc, chain, None, prio, names)
        EXCEPT !.sender = sender, !.args = args]

NoRet == Ret("none", <<>>, "none", <<>>, None, None, <<>>)

\* an entry of the trace of a dispatch: `by` invokes handler h ("invoke"; by
\* is None for the dispatcher), the callback of h is called ("callback",
\* with_event_args telling whether it is given event_args), or the invoke of
\* h returns val ("return")
LogEntry(what, h, by, with_event_args, ea, args, val) ==
    [what |-> what, h |-> h, by |-> by, with_event_args |-> with_event_args,
     event_args |-> ea, args |-> args, val |-> val]

InvokeEntry(h, by, ea, args) == LogEntry("invoke", h, by, TRUE, ea, args, None)

CallbackEntry(h, with_event_args, ea, args) ==
    LogEntry("callback", h, h, with_event_args, ea, args, None)

ReturnEntry(h, ea, args, val) == LogEntry("return", h, h, FALSE, ea, args, val)

\* the dispatcher of cloudbridge run side by side with the one of
\* pyeventsystem: its registry, its handler cache and what its last call
\* returned or raised.  Its handler objects are the twins of the handlers of
\* pyeventsystem, with the same numbers, patterns, priorities and callbacks.
Cloudbridge(evs, cache, res) ==
    [events |-> evs, handler_cache |-> cache, res |-> res]

\* self.__handler_cache = {}
EmptyCache == [e \in EventNames |-> NoEntry]

NoResolution == Resolution("none", <<>>, None, <<>>)

\* SimpleEventDispatcher.__init__ of cloudbridge
CloudbridgeInit ==
    Cloudbridge([p \in Patterns |-> <<>>], EmptyCache, NoResolution)

\* SimpleEventDispatcher.__init__
Init ==
    /\ handlers = <<>>
    /\ events = [p \in Patterns |-> <<>>]
    /\ handler_cache = [e \in EventNames |-> NoEntry]
    /\ ctl = IdleControl
    /\ stack = <<>>
    /\ event_args = NoEventArgs
    /\ log = <<>>
    /\ ret = NoRet
    /\ prev = NoRet
    /\ middleware_list = <<>>
    /\ event_handlers = [g \in Groups \cup Objects |-> <<>>]
    /\ middleware_events = [g \in Groups \cup Objects |-> None]
    /\ bound_method = <<>>
    /\ object_events = [o \in Objects |-> None]
    /\ cloudbridge = CloudbridgeInit

\* the dispatcher and the handlers know nothing of the middleware
NoMiddleware ==
    UNCHANGED <<middleware_list, event_handlers, middleware_events,
                bound_method, object_events>>

\* a call of the API that is not a dispatch leaves no dispatch behind
NoDispatch ==
    /\ ctl' = IdleControl
    /\ stack' = <<>>
    /\ event_args' = NoEventArgs
    /\ log' = <<>>

---------------------------------------------------------------------------
(* SimpleEventDispatcher: subscribe, unsubscribe and the factories *)

\* SimpleEventDispatcher.subscribe applied to the handler table hs
SubscribeTo(hs, h) ==
    /\ handlers' = [hs EXCEPT ![h].dispatcher = Dispatcher]
    /\ events' = [events EXCEPT ![hs[h].event_pattern] = Append(@, h)]
    /\ handler_cache' = InvalidateCache(handler_cache, hs[h].event_pattern)

RECURSIVE Entries(_)
\* the number of entries of the registry, over every pattern
Entries(keys) ==
    IF keys = <<>> THEN 0 ELSE Len(events[Head(keys)]) + Entries(Tail(keys))

\* dispatcher.subscribe(h) of a handler object that exists already
Subscribe(h) ==
    /\ Idle
    /\ h \in DOMAIN handlers
    /\ SubscribeTo(handlers, h)
    /\ ret' = Ret("subscribe", <<>>, "none", <<>>, None, None, <<>>)
    /\ NoDispatch
    /\ NoMiddleware

\* observe, intercept and implement: construct a handler and subscribe it
Construct(bound, op, pattern, prio, kind, cb) ==
    /\ Idle
    /\ Len(handlers) < bound
    /\ SubscribeTo(Append(handlers, NewHandler(pattern, prio, kind, cb)),
                   Len(handlers) + 1)
    /\ ret' = Ret(op, <<>>, "none", <<>>, Len(handlers) + 1, None, <<>>)
    /\ NoDispatch
    /\ NoMiddleware

\* SimpleEventDispatcher.observe
Observe(bound, pattern, prio) ==
    Construct(bound, "observe", pattern, prio, "Observing", "return")

\* SimpleEventDispatcher.intercept
Intercept(bound, pattern, prio, cb) ==
    Construct(bound, "intercept", pattern, prio, "Intercepting", cb)

\* SimpleEventDispatcher.implement
Implement(bound, pattern, prio) ==
    Construct(bound, "implement", pattern, prio, "Implementing", "return")

\* the body of SimpleEventDispatcher.unsubscribe once list.remove succeeded
UnsubscribeFrom(h) ==
    /\ events' = [events EXCEPT ![handlers[h].event_pattern] =
                      RemoveFirst(@, h)]
    /\ handlers' = [handlers EXCEPT ![h].dispatcher = None]
    /\ handler_cache' =
           InvalidateCache(handler_cache, handlers[h].event_pattern)

\* a removal that takes every handler to be in the list
InRegistry_Always(h) == TRUE

\* whether handler_list.remove(event_handler) finds the handler
InRegistry(h) == h \in SeqToSet(events[handlers[h].event_pattern])

\* SimpleEventDispatcher.unsubscribe: list.remove raises ValueError when the
\* handler is not in the list of its pattern
Unsubscribe(h) ==
    /\ Idle
    /\ h \in DOMAIN handlers
    /\ IF InRegistry(h)
       THEN /\ UnsubscribeFrom(h)
            /\ ret' = Ret("unsubscribe", <<>>, "none", <<>>, None, None, <<>>)
       ELSE /\ UNCHANGED <<handlers, events, handler_cache>>
            /\ ret' = Ret("unsubscribe", <<>>, "ValueError", <<>>, None, None,
                          <<>>)
    /\ NoDispatch
    /\ NoMiddleware

\* a handler that asks its dispatcher whether or not it has one
Attached_Always(h) == TRUE

\* BaseEventHandler.unsubscribe: if self.dispatcher
Attached(h) == handlers[h].dispatcher # None

\* BaseEventHandler.unsubscribe
HandlerUnsubscribe(h) ==
    /\ Idle
    /\ h \in DOMAIN handlers
    /\ IF Attached(h)
       THEN IF InRegistry(h)
            THEN /\ UnsubscribeFrom(h)
                 /\ ret' = Ret("handler.unsubscribe", <<>>, "none", <<>>, None,
                               None, <<>>)
            ELSE /\ UNCHANGED <<handlers, events, handler_cache>>
                 /\ ret' = Ret("handler.unsubscribe", <<>>, "ValueError",
                               <<>>, None, None, <<>>)
       ELSE /\ UNCHANGED <<handlers, events, handler_cache>>
            /\ ret' = Ret("handler.unsubscribe", <<>>, "none", <<>>, None,
                          None, <<>>)
    /\ NoDispatch
    /\ NoMiddleware

\* a call of SimpleEventDispatcher.get_handlers_for_event from outside
GetHandlers(ev) ==
    /\ Idle
    /\ \E g \in {GetHandlersForEvent(handler_cache, ev)} :
           /\ handler_cache' = g.cache
           /\ ret' = Ret("get_handlers_for_event", ev, g.res.exc, g.res.chain,
                         None, g.res.priority, g.res.names)
    /\ UNCHANGED <<handlers, events>>
    /\ NoDispatch
    /\ NoMiddleware

---------------------------------------------------------------------------
(* SimpleEventDispatcher.dispatch and the invoke methods *)

\* the frame of an invoke that waits for the handler it invoked: `result` is
\* the local variable of ImplementingEventHandler.invoke
Frame(h, result) == [h |-> h, result |-> result]

\* an unwinding that unsubscribes every handler
Raise_Unsubscribing(exc) ==
    /\ ret' = [ret EXCEPT !.exc = exc]
    /\ ctl' = IdleControl
    /\ stack' = <<>>
    /\ handlers' = [h \in DOMAIN handlers |->
                       [handlers[h] EXCEPT !.dispatcher = None]]
    /\ events' = [p \in Patterns |-> <<>>]

\* an exception leaves every invoke frame and dispatch itself: neither the
\* invoke methods nor dispatch catch anything, and nothing on the way
\* touches the registry
Raise(exc) ==
    /\ ret' = [ret EXCEPT !.exc = exc]
    /\ ctl' = IdleControl
    /\ stack' = <<>>
    /\ UNCHANGED <<handlers, events>>

\* handler `by` calls next_handler.invoke(event_args, *args, **kwargs)
Call(by, next, ea, entries) ==
    /\ stack' = Append(stack, by)
    /\ ctl' = Control("call", next, None, ctl.args)
    /\ event_args' = ea
    /\ log' = log \o entries \o <<InvokeEntry(next, by.h, ea, ctl.args)>>
    /\ UNCHANGED <<ret, handlers, events>>

\* a dispatch that starts the chain at its last handler
FirstHandler_Last(chain) == chain[Len(chain)]

\* handlers[0] in dispatch
FirstHandler(chain) == chain[1]

\* an Interceptor that returns None whatever its callback returned
InterceptingResult_None(callback_result) == None

\* InterceptingEventHandler.invoke: return result
InterceptingResult(callback_result) == callback_result

\* an Observer that stops the chain
ObservingInvokesNext_Never(next_handler) == FALSE

\* ObservingEventHandler.invoke: if next_handler
ObservingInvokesNext(next_handler) == next_handler # None

\* an Observer that drops the result of the rest of the chain
ObservingResult_None(next_result) == None

\* ObservingEventHandler.invoke: return next_handler.invoke(...)
ObservingResult(next_result) == next_result

\* an Implementer that returns what the next handler returned
ImplementingResult_Downstream(result, next_result) == next_result

\* ImplementingEventHandler.invoke: return result
ImplementingResult(result, next_result) == result

\* a dispatch that raises when no handler matches
NoHandlers_Raises(sender, ev, args) ==
    DispatchRet(sender, ev, args, "HandlerException", <<>>, None, <<>>)

\* dispatch without a matching handler: log.warning(message); return None
NoHandlers(sender, ev, args) ==
    DispatchRet(sender, ev, args, "none", <<>>, None, <<>>)

\* SimpleEventDispatcher.dispatch, up to the invoke of the first handler
Dispatch(sender, ev, args) ==
    /\ Idle
    /\ \E g \in {GetHandlersForEvent(handler_cache, ev)} :
       LET chain == g.res.chain
           ea == EventArgs(ev, sender, Absent, Absent)
       IN  /\ handler_cache' = g.cache
           /\ IF g.res.exc # "none"
              THEN /\ ret' = DispatchRet(sender, ev, args, g.res.exc, <<>>,
                                         g.res.priority, g.res.names)
                   /\ NoDispatch
              ELSE IF chain = <<>>
              THEN /\ ret' = NoHandlers(sender, ev, args)
                   /\ NoDispatch
              ELSE /\ ret' = DispatchRet(sender, ev, args, "running", chain,
                                         None, <<>>)
                   /\ ctl' = Control("call", FirstHandler(chain), None, args)
                   /\ stack' = <<>>
                   /\ event_args' = ea
                   /\ log' = <<InvokeEntry(FirstHandler(chain), None, ea,
                                           args)>>
    /\ UNCHANGED <<handlers, events>>
    /\ NoMiddleware

\* dispatch returns what handlers[0].invoke returned
DispatchReturn ==
    /\ ctl.state = "return"
    /\ stack = <<>>
    /\ ret' = [ret EXCEPT !.exc = "none", !.val = ctl.val]
    /\ ctl' = IdleControl
    /\ UNCHANGED <<handlers, events, handler_cache, stack, event_args, log>>
    /\ NoMiddleware

\* the invoke of handler h returns val to its caller
Return(h, val, ea, entries) ==
    /\ ctl' = Control("return", None, val, ctl.args)
    /\ event_args' = ea
    /\ log' = log \o entries \o <<ReturnEntry(h, ea, ctl.args, val)>>
    /\ UNCHANGED <<ret, handlers, events>>

Invoked(kind) ==
    /\ ctl.state = "call"
    /\ handlers[ctl.h].kind = kind

Returning(kind) ==
    /\ ctl.state = "return"
    /\ stack # <<>>
    /\ handlers[stack[Len(stack)].h].kind = kind

\* InterceptingEventHandler.invoke, up to the return of the callback or to
\* the invoke of the next handler by the callback
InvokeIntercepting ==
    /\ Invoked("Intercepting")
    /\ \E n \in {GetNextHandler(ctl.h, event_args.event, handler_cache)} :
       LET h == ctl.h
           ea == [event_args EXCEPT !.next_handler = n.next]
           entry == CallbackEntry(h, TRUE, ea, ctl.args)
           cb == handlers[h].callback
       IN  /\ handler_cache' = n.cache
           /\ IF n.exc # "none"
              THEN /\ Raise(n.exc)
                   /\ UNCHANGED <<event_args, log>>
              ELSE IF cb = "pass" /\ n.next = None
              THEN \* None has no attribute invoke
                   /\ Raise("AttributeError")
                   /\ event_args' = ea
                   /\ log' = Append(log, entry)
              ELSE IF cb \in {"pass", "pass_or_own"} /\ n.next # None
              THEN Call(Frame(h, None), n.next, ea, <<entry>>)
              ELSE /\ Return(h, InterceptingResult(CallbackValue(h)),
                             [ea EXCEPT !.next_handler = Absent], <<entry>>)
                   /\ UNCHANGED stack
    /\ NoMiddleware

\* InterceptingEventHandler.invoke after the callback, which returns what
\* the next handler returned
ReturnIntercepting ==
    /\ Returning("Intercepting")
    /\ stack' = SubSeq(stack, 1, Len(stack) - 1)
    /\ Return(stack[Len(stack)].h, InterceptingResult(ctl.val),
              [event_args EXCEPT !.next_handler = Absent], <<>>)
    /\ UNCHANGED handler_cache
    /\ NoMiddleware

\* an Observer that leaves the next_handler it was invoked with
ObservingEventArgs_Kept(ea) == ea

\* ObservingEventHandler.invoke: event_args.pop('next_handler', None)
ObservingEventArgs(ea) == [ea EXCEPT !.next_handler = Absent]

\* ObservingEventHandler.invoke, up to the invoke of the next handler
InvokeObserving ==
    /\ Invoked("Observing")
    /\ \E n \in {GetNextHandler(ctl.h, event_args.event, handler_cache)} :
       LET h == ctl.h
           ea == ObservingEventArgs(event_args)
           entry == CallbackEntry(h, TRUE, ea, ctl.args)
       IN  /\ handler_cache' = n.cache
           /\ IF n.exc # "none"
              THEN /\ Raise(n.exc)
                   /\ event_args' = ea
                   /\ UNCHANGED log
              ELSE IF ObservingInvokesNext(n.next)
              THEN Call(Frame(h, None), n.next, ea, <<entry>>)
              ELSE /\ Return(h, None, ea, <<entry>>)
                   /\ UNCHANGED stack
    /\ NoMiddleware

\* ObservingEventHandler.invoke returns what the next handler returned
ReturnObserving ==
    /\ Returning("Observing")
    /\ stack' = SubSeq(stack, 1, Len(stack) - 1)
    /\ Return(stack[Len(stack)].h, ObservingResult(ctl.val), event_args,
              <<>>)
    /\ UNCHANGED handler_cache
    /\ NoMiddleware

\* an Implementer that ends the chain
ImplementingInvokesNext_Never(next_handler) == FALSE

\* ImplementingEventHandler.invoke: if next_handler
ImplementingInvokesNext(next_handler) == next_handler # None

\* an Implementer that passes on the result it found in event_args
ImplementingEventArgs_Stale(ea, next_handler, result) ==
    [ea EXCEPT !.next_handler = next_handler]

\* an Implementer that keeps the result an Implementer in front of it placed
ImplementingEventArgs_Upstream(ea, next_handler, result) ==
    [ea EXCEPT !.next_handler = next_handler,
               !.result = IF ea.result # Absent THEN ea.result ELSE result]

\* ImplementingEventHandler.invoke: event_args['next_handler'] =
\* next_handler; event_args['result'] = result
ImplementingEventArgs(ea, next_handler, result) ==
    [ea EXCEPT !.next_handler = next_handler, !.result = result]

\* ImplementingEventHandler.invoke, up to the invoke of the next handler
InvokeImplementing ==
    /\ Invoked("Implementing")
    /\ \E n \in {GetNextHandler(ctl.h, event_args.event, handler_cache)} :
       LET h == ctl.h
           result == CallbackValue(h)
           entry == CallbackEntry(h, FALSE, event_args, ctl.args)
           ea == ImplementingEventArgs(event_args, n.next, result)
       IN  /\ handler_cache' = n.cache
           /\ IF n.exc # "none"
              THEN /\ Raise(n.exc)
                   /\ log' = Append(log, entry)
                   /\ UNCHANGED event_args
              ELSE IF ImplementingInvokesNext(n.next)
              THEN Call(Frame(h, result), n.next, ea, <<entry>>)
              ELSE /\ Return(h, result, event_args, <<entry>>)
                   /\ UNCHANGED stack
    /\ NoMiddleware

\* ImplementingEventHandler.invoke after the next handler returned
ReturnImplementing ==
    /\ Returning("Implementing")
    /\ stack' = SubSeq(stack, 1, Len(stack) - 1)
    /\ Return(stack[Len(stack)].h,
              ImplementingResult(stack[Len(stack)].result, ctl.val),
              [event_args EXCEPT !.result = Absent, !.next_handler = Absent],
              <<>>)
    /\ UNCHANGED handler_cache
    /\ NoMiddleware

---------------------------------------------------------------------------
(* The invoke methods with callbacks that subscribe and unsubscribe *)

\* The callback of a handler is a step of its own here: the invoke method
\* runs up to the call of the callback ("callback"), the callback does what
\* it does to the registry, and the invoke method goes on ("proceed").
\* ctl.val holds the local variable of the invoke method: next_handler in
\* an Observer and an Interceptor, result in an Implementer.

InCallback == ctl.state = "callback"

Proceeding(kind) ==
    /\ ctl.state = "proceed"
    /\ handlers[ctl.h].kind = kind

\* what a callback did to the registry: `by` is the handler whose callback
\* it is and h the handler it subscribed or unsubscribed
EffectEntry(what, h, by) ==
    LogEntry(what, h, by, FALSE, event_args, ctl.args, None)

\* the callback is called with the lookup behind it, if the invoke method
\* looks the next handler up first
CallsCallback(h, local, ea, with_event_args) ==
    /\ ctl' = Control("callback", h, local, ctl.args)
    /\ event_args' = ea
    /\ log' = Append(log, CallbackEntry(h, with_event_args, ea, ctl.args))
    /\ UNCHANGED <<ret, stack, handlers, events>>

\* ObservingEventHandler.invoke up to the call of the callback
BeginObserving ==
    /\ Invoked("Observing")
    /\ \E n \in {GetNextHandler(ctl.h, event_args.event, handler_cache)} :
          /\ handler_cache' = n.cache
          /\ IF n.exc # "none"
             THEN /\ Raise(n.exc)
                  /\ event_args' = ObservingEventArgs(event_args)
                  /\ UNCHANGED log
             ELSE CallsCallback(ctl.h, n.next,
                                ObservingEventArgs(event_args), TRUE)
    /\ NoMiddleware

\* InterceptingEventHandler.invoke up to the call of the callback
BeginIntercepting ==
    /\ Invoked("Intercepting")
    /\ \E n \in {GetNextHandler(ctl.h, event_args.event, handler_cache)} :
          /\ handler_cache' = n.cache
          /\ IF n.exc # "none"
             THEN /\ Raise(n.exc)
                  /\ UNCHANGED <<event_args, log>>
             ELSE CallsCallback(ctl.h, n.next,
                                [event_args EXCEPT !.next_handler = n.next],
                                TRUE)
    /\ NoMiddleware

\* ImplementingEventHandler.invoke up to the call of the callback, which
\* comes before the lookup
BeginImplementing ==
    /\ Invoked("Implementing")
    /\ CallsCallback(ctl.h, CallbackValue(ctl.h), event_args, FALSE)
    /\ UNCHANGED handler_cache
    /\ NoMiddleware

\* the callback is through with the registry
Proceeds ==
    /\ ctl' = [ctl EXCEPT !.state = "proceed"]
    /\ UNCHANGED <<ret, stack, event_args>>

\* a callback that leaves the registry alone
CallbackReturns ==
    /\ InCallback
    /\ Proceeds
    /\ UNCHANGED <<handlers, events, handler_cache, log>>
    /\ NoMiddleware

\* a callback that calls t.unsubscribe() on handler t
CallbackUnsubscribes(t) ==
    /\ InCallback
    /\ t \in DOMAIN handlers
    /\ IF Attached(t)
       THEN IF InRegistry(t)
            THEN /\ UnsubscribeFrom(t)
                 /\ Proceeds
            ELSE /\ Raise("ValueError")
                 /\ UNCHANGED <<handler_cache, event_args>>
       ELSE /\ Proceeds
            /\ UNCHANGED <<handlers, events, handler_cache>>
    /\ log' = Append(log, EffectEntry("unsubscribe", t, ctl.h))
    /\ NoMiddleware

\* a callback that calls dispatcher.observe(pattern, prio, callback)
CallbackSubscribes(bound, pattern, prio) ==
    /\ InCallback
    /\ Len(handlers) < bound
    /\ SubscribeTo(Append(handlers,
                          NewHandler(pattern, prio, "Observing", "return")),
                   Len(handlers) + 1)
    /\ Proceeds
    /\ log' = Append(log, EffectEntry("subscribe", Len(handlers) + 1, ctl.h))
    /\ NoMiddleware

\* ObservingEventHandler.invoke behind the callback
ProceedObserving ==
    /\ Proceeding("Observing")
    /\ IF ObservingInvokesNext(ctl.val)
       THEN Call(Frame(ctl.h, None), ctl.val, event_args, <<>>)
       ELSE /\ Return(ctl.h, None, event_args, <<>>)
            /\ UNCHANGED stack
    /\ UNCHANGED handler_cache
    /\ NoMiddleware

\* the callback of an Interceptor invokes the next_handler it was given or
\* returns its own value, and InterceptingEventHandler.invoke returns
ProceedIntercepting ==
    /\ Proceeding("Intercepting")
    /\ IF handlers[ctl.h].callback = "pass" /\ ctl.val = None
       THEN /\ Raise("AttributeError")
            /\ UNCHANGED <<event_args, log>>
       ELSE IF /\ handlers[ctl.h].callback \in {"pass", "pass_or_own"}
               /\ ctl.val # None
       THEN Call(Frame(ctl.h, None), ctl.val, event_args, <<>>)
       ELSE /\ Return(ctl.h, InterceptingResult(CallbackValue(ctl.h)),
                      [event_args EXCEPT !.next_handler = Absent], <<>>)
            /\ UNCHANGED stack
    /\ UNCHANGED handler_cache
    /\ NoMiddleware

\* ImplementingEventHandler.invoke behind the callback: the lookup and the
\* invoke of the next handler
ProceedImplementing ==
    /\ Proceeding("Implementing")
    /\ \E n \in {GetNextHandler(ctl.h, event_args.event, handler_cache)} :
          /\ handler_cache' = n.cache
          /\ IF n.exc # "none"
             THEN /\ Raise(n.exc)
                  /\ UNCHANGED <<event_args, log>>
             ELSE IF ImplementingInvokesNext(n.next)
             THEN Call(Frame(ctl.h, ctl.val), n.next,
                       ImplementingEventArgs(event_args, n.next, ctl.val),
                       <<>>)
             ELSE /\ Return(ctl.h, ctl.val, event_args, <<>>)
                  /\ UNCHANGED stack
    /\ NoMiddleware

---------------------------------------------------------------------------
(* BaseMiddleware and SimpleMiddlewareManager *)

\* the handler of the method my_callback_impl of object o, decorated with
\* @dispatch: D1 is of a class and D2 of a class that inherits from it and
\* overrides the method, as in
\* test_middleware_inheritance_multiple_middleware
Decorated(o) ==
    IF o = "D1"
    THEN << NewHandler(DecoratorEvent, 2, "Implementing", "return") >>
    ELSE << NewHandler(DecoratorEvent, 3, "Implementing", "return") >>

\* the handlers of the decorated methods of group g: two groups whose
\* priorities interleave, as in test_multiple_middleware
Declared(g) ==
    IF g \in Objects THEN Decorated(g)
    ELSE IF g = "G1"
    THEN << NewHandler(<<"a", ".", "*">>, 2, "Implementing", "return") >>
    ELSE << NewHandler(<<"a", ".", "*">>, 1, "Intercepting", "pass"),
            NewHandler(<<"b">>, 3, "Observing", "return") >>

\* the bound method number k of group g, the callback of a discovered handler
Method(g, k) == <<g, k>>

\* the handler table, the registry and the cache, and the exception a call
\* that worked on them raised
Registry(hs, evs, cache, exc) ==
    [handlers |-> hs, events |-> evs, cache |-> cache, exc |-> exc]

\* SimpleEventDispatcher.subscribe on the registry r
SubscribeIn(r, h) ==
    Registry([r.handlers EXCEPT ![h].dispatcher = Dispatcher],
             [r.events EXCEPT ![r.handlers[h].event_pattern] = Append(@, h)],
             InvalidateCache(r.cache, r.handlers[h].event_pattern),
             r.exc)

\* SimpleEventDispatcher.unsubscribe on the registry r
UnsubscribeIn(r, h) ==
    IF h \in SeqToSet(r.events[r.handlers[h].event_pattern])
    THEN Registry([r.handlers EXCEPT ![h].dispatcher = None],
                  [r.events EXCEPT ![r.handlers[h].event_pattern] =
                       RemoveFirst(@, h)],
                  InvalidateCache(r.cache, r.handlers[h].event_pattern),
                  r.exc)
    ELSE [r EXCEPT !.exc = "ValueError"]

\* BaseEventHandler.unsubscribe on the registry r
HandlerUnsubscribeIn(r, h) ==
    IF r.handlers[h].dispatcher # None THEN UnsubscribeIn(r, h) ELSE r

RECURSIVE SubscribeAll(_, _)
\* for handler in handlers: self.events.subscribe(handler)
SubscribeAll(r, hs) ==
    IF hs = <<>> THEN r
    ELSE SubscribeAll(SubscribeIn(r, Head(hs)), Tail(hs))

RECURSIVE UnsubscribeAll(_, _)
\* for handler in self.event_handlers: handler.unsubscribe(); the loop ends
\* at the first call that raises
UnsubscribeAll(r, hs) ==
    IF hs = <<>> \/ r.exc # "none" THEN r
    ELSE UnsubscribeAll(HandlerUnsubscribeIn(r, Head(hs)), Tail(hs))

\* the numbers of the handler objects discover_handlers creates for group g
Discovered(g) ==
    [k \in 1..Len(Declared(g)) |-> Len(handlers) + k]

\* the methods the new handlers are bound to
Bound(g) ==
    [h \in (DOMAIN bound_method) \cup SeqToSet(Discovered(g)) |->
        IF h \in DOMAIN bound_method THEN bound_method[h]
        ELSE Method(g, h - Len(handlers))]

\* the registry before a call
CurrentRegistry == Registry(handlers, events, handler_cache, "none")

\* the registry r is the one the call leaves
Leaves(r) ==
    /\ handlers' = r.handlers
    /\ events' = r.events
    /\ handler_cache' = r.cache

\* BaseMiddleware.install(event_manager) of group g: the registry it leaves
InstallIn(g) ==
    SubscribeAll(Registry(handlers \o Declared(g), events, handler_cache,
                          "none"),
                 Discovered(g))

\* the effect of BaseMiddleware.install on the group and on the registry
Installs(g) ==
    /\ Leaves(InstallIn(g))
    /\ event_handlers' =
           [event_handlers EXCEPT ![g] = @ \o Discovered(g)]
    /\ middleware_events' = [middleware_events EXCEPT ![g] = Dispatcher]
    /\ bound_method' = Bound(g)

\* an uninstall that forgets its handlers without unsubscribing them
UninstallIn_Forgetting(g) == CurrentRegistry

\* BaseMiddleware.uninstall of group g: the registry its loop leaves
UninstallIn(g) == UnsubscribeAll(CurrentRegistry, event_handlers[g])

\* the effect of BaseMiddleware.uninstall, whose loop left the registry r
Uninstalls(g, r) ==
    /\ Leaves(r)
    /\ IF r.exc # "none"
       THEN UNCHANGED <<event_handlers, middleware_events>>
       ELSE /\ event_handlers' = [event_handlers EXCEPT ![g] = <<>>]
            /\ middleware_events' = [middleware_events EXCEPT ![g] = None]
    /\ UNCHANGED bound_method

\* a call of group.install(dispatcher) from outside
Install(bound, g) ==
    /\ Idle
    /\ Len(handlers) + Len(Declared(g)) <= bound
    /\ Installs(g)
    /\ ret' = Ret("install", <<>>, "none", <<>>, None, None, <<>>)
    /\ UNCHANGED <<middleware_list, object_events>>
    /\ NoDispatch

\* a call of group.uninstall() from outside
Uninstall(g) ==
    /\ Idle
    /\ \E r \in {UninstallIn(g)} :
          /\ Uninstalls(g, r)
          /\ ret' = Ret("uninstall", <<>>, r.exc, <<>>, None, None, <<>>)
    /\ UNCHANGED <<middleware_list, object_events>>
    /\ NoDispatch

\* a manager that tracks nothing
Tracked_Nothing(list, g) == list

\* SimpleMiddlewareManager.add: self.middleware_list.append(m)
Tracked(list, g) == Append(list, g)

\* SimpleMiddlewareManager.add
ManagerAdd(bound, g) ==
    /\ Idle
    /\ Len(handlers) + Len(Declared(g)) <= bound
    /\ Installs(g)
    /\ middleware_list' = Tracked(middleware_list, g)
    /\ ret' = Ret("add", <<>>, "none", <<>>, None, None, <<>>)
    /\ UNCHANGED object_events
    /\ NoDispatch

\* SimpleMiddlewareManager.remove: uninstall, then list.remove, which raises
\* ValueError when the group is not in the list
ManagerRemove(g) ==
    /\ Idle
    /\ \E r \in {UninstallIn(g)} :
          /\ Uninstalls(g, r)
          /\ IF r.exc # "none"
             THEN /\ UNCHANGED middleware_list
                  /\ ret' = Ret("remove", <<>>, r.exc, <<>>, None, None, <<>>)
             ELSE IF g \in SeqToSet(middleware_list)
             THEN /\ middleware_list' = RemoveFirst(middleware_list, g)
                  /\ ret' = Ret("remove", <<>>, "none", <<>>, None, None,
                                <<>>)
             ELSE /\ UNCHANGED middleware_list
                  /\ ret' = Ret("remove", <<>>, "ValueError", <<>>, None,
                                None, <<>>)
    /\ UNCHANGED object_events
    /\ NoDispatch

---------------------------------------------------------------------------
(* The decorator dispatch *)

\* the functions a call of my_callback_impl on object o can reach: function
\* 1 is the one its class defines, which discover_handlers binds, and
\* function 0 the one of the parent class, which the class of D2 overrides
\* and reaches through super()
Overridden == 0

Functions(o) == IF o = "D2" THEN {Overridden, 1} ELSE {1}

\* the value function k returns when the wrapper calls it on object o
\* directly; the value it returns as the callback of handler h is h
DirectValue(o, k) == IF o = "D1" THEN -10 - k ELSE -20 - k

\* obj.events = dispatcher
SetAttribute(o) ==
    /\ Idle
    /\ object_events' = [object_events EXCEPT ![o] = Dispatcher]
    /\ ret' = Ret("setattr", <<>>, "none", <<>>, None, None, <<>>)
    /\ NoDispatch
    /\ UNCHANGED <<handlers, events, handler_cache, middleware_list,
                   event_handlers, middleware_events, bound_method>>

\* what a call of the wrapper on object o returned or raised when it did
\* not go through dispatcher.dispatch
WrapperRet(o, args, exc, val, prio, names) ==
    [Ret("wrapper", DecoratorEvent, exc, <<>>, val, prio, names)
        EXCEPT !.sender = o, !.args = args]

\* the entry of the trace for f(self, *args, **kwargs) in the wrapper
DirectEntry(args, val) ==
    LogEntry("direct", None, None, FALSE, NoEventArgs, args, val)

\* a wrapper that takes the dispatcher of the manager when the object has
\* none
HasDispatcher_Default(o) == TRUE

\* wrapper: dispatcher = _deepgetattr(self, dispatcher_attr); if dispatcher
HasDispatcher(o) == object_events[o] # None

\* a wrapper that looks for a handler of the event, whatever its callback
Registered_Any(chain, bound_func) == chain # <<>>

\* wrapper: any(h for h in handlers if h.callback == bound_func)
Registered(chain, bound_func) ==
    \E i \in 1..Len(chain) :
        /\ chain[i] \in DOMAIN bound_method
        /\ bound_method[chain[i]] = bound_func

\* a wrapper that calls the function and dispatches the event as well
CallsDirectly_Also(args, val) == <<DirectEntry(args, val)>>

\* the wrapper does not call the function itself when it dispatches
CallsDirectly(args, val) == <<>>

\* a call obj.my_callback_impl(*args) that reaches the wrapper of function
\* k with self = o
WrapperCall(o, k, args) ==
    /\ Idle
    /\ IF ~HasDispatcher(o)
       THEN /\ ret' = WrapperRet(o, args, "HandlerException", None, None,
                                 <<>>)
            /\ NoDispatch
            /\ UNCHANGED <<handlers, events, handler_cache>>
            /\ NoMiddleware
       ELSE \E g \in {GetHandlersForEvent(handler_cache, DecoratorEvent)} :
            IF g.res.exc # "none"
            THEN /\ ret' = WrapperRet(o, args, g.res.exc, None,
                                      g.res.priority, g.res.names)
                 /\ handler_cache' = g.cache
                 /\ NoDispatch
                 /\ UNCHANGED <<handlers, events>>
                 /\ NoMiddleware
            ELSE IF Registered(g.res.chain, Method(o, k))
            THEN /\ ret' = DispatchRet(o, DecoratorEvent, args, "running",
                                       g.res.chain, None, <<>>)
                 /\ ctl' = Control("call", FirstHandler(g.res.chain), None,
                                   args)
                 /\ stack' = <<>>
                 /\ event_args' = EventArgs(DecoratorEvent, o, Absent, Absent)
                 /\ log' = CallsDirectly(args, DirectValue(o, k)) \o
                           <<InvokeEntry(FirstHandler(g.res.chain), None,
                                         EventArgs(DecoratorEvent, o, Absent,
                                                   Absent),
                                         args)>>
                 /\ handler_cache' = g.cache
                 /\ UNCHANGED <<handlers, events>>
                 /\ NoMiddleware
            ELSE /\ ret' = WrapperRet(o, args, "none", DirectValue(o, k),
                                      None, <<>>)
                 /\ ctl' = IdleControl
                 /\ stack' = <<>>
                 /\ event_args' = NoEventArgs
                 /\ log' = <<DirectEntry(args, DirectValue(o, k))>>
                 /\ handler_cache' = g.cache
                 /\ UNCHANGED <<handlers, events>>
                 /\ NoMiddleware

---------------------------------------------------------------------------
(* The dispatcher of cloudbridge, src/cloudbridge/cloud/base/events.py *)

RECURSIVE CloudbridgeMatchingHandlers(_, _, _)
\* for key in self.__events.keys(): if re.search(...): cache_list.extend(...)
CloudbridgeMatchingHandlers(evs, keys, ev) ==
    IF keys = <<>> THEN <<>>
    ELSE (IF ReSearch(Head(keys), ev) THEN evs[Head(keys)] ELSE <<>>)
         \o CloudbridgeMatchingHandlers(evs, Tail(keys), ev)

\* SimpleEventDispatcher._create_handler_cache of cloudbridge
CloudbridgeCreateHandlerCache(evs, ev) ==
    Checked(SortByPriority(CloudbridgeMatchingHandlers(evs, PatternOrder, ev)))

\* self.__handler_cache[event] = self._create_handler_cache(event) in
\* cloudbridge: nothing is stored when the resolution r raised
CloudbridgeStore(c, ev, r) ==
    Cloudbridge(c.events,
                IF r.exc # "none" THEN c.handler_cache
                ELSE [c.handler_cache EXCEPT ![ev] = r.chain],
                r)

\* SimpleEventDispatcher.get_handlers_for_event of cloudbridge
CloudbridgeGetHandlersForEvent(c, ev) ==
    IF c.handler_cache[ev] # NoEntry
    THEN Cloudbridge(c.events, c.handler_cache,
                     Resolution("none", c.handler_cache[ev], None, <<>>))
    ELSE CloudbridgeStore(c, ev, CloudbridgeCreateHandlerCache(c.events, ev))

\* an invalidation that keeps the cache
CloudbridgeInvalidate_Keeping(cache) == cache

\* the invalidation of cloudbridge: self.__handler_cache = {}
CloudbridgeInvalidate(cache) == EmptyCache

\* SimpleEventDispatcher.subscribe of cloudbridge, given the twin of handler
\* h, whose pattern is `pattern`
CloudbridgeSubscribe(pattern, h) ==
    cloudbridge' =
        Cloudbridge([cloudbridge.events EXCEPT ![pattern] = Append(@, h)],
                    CloudbridgeInvalidate(cloudbridge.handler_cache),
                    NoResolution)

\* SimpleEventDispatcher.unsubscribe of cloudbridge, given the twin of
\* handler h: list.remove raises ValueError when it is not in the list
CloudbridgeUnsubscribe(h) ==
    cloudbridge' =
        IF h \in SeqToSet(cloudbridge.events[handlers[h].event_pattern])
        THEN Cloudbridge([cloudbridge.events EXCEPT
                             ![handlers[h].event_pattern] = RemoveFirst(@, h)],
                         CloudbridgeInvalidate(cloudbridge.handler_cache),
                         NoResolution)
        ELSE [cloudbridge EXCEPT
                 !.res = Resolution("ValueError", <<>>, None, <<>>)]

\* a call of get_handlers_for_event of cloudbridge from outside
CloudbridgeGetHandlers(ev) ==
    cloudbridge' = CloudbridgeGetHandlersForEvent(cloudbridge, ev)

---------------------------------------------------------------------------
(* Specifications *)

\* the outcome of a dispatch that completed is kept when the next call of
\* the API replaces it, and until a second handler is subscribed after it;
\* `subscribing` tells whether the step subscribes a handler
Remember(subscribing) ==
    prev' = IF Idle /\ ret.op = "dispatch" THEN ret
            ELSE IF subscribing THEN NoRet
            ELSE prev

\* in Spec the outcome of the call before is kept only from one
\* handler.unsubscribe() to the handler.unsubscribe() that follows it
RememberUnsubscribe ==
    prev' = IF ret.op = "handler.unsubscribe" THEN ret ELSE NoRet

Forget == prev' = NoRet

\* the dispatcher of cloudbridge is not run alongside
Alone == UNCHANGED cloudbridge

\* the registry under subscribe, unsubscribe, resolution and dispatch, with
\* Observers on every pattern
Next ==
    \/ /\ Entries(PatternOrder) < MaxEntries
       /\ \E p \in Patterns, prio \in Priorities :
              Observe(MaxHandlers, p, prio)
       /\ Forget /\ Alone
    \/ /\ Entries(PatternOrder) < MaxEntries
       /\ \E h \in DOMAIN handlers : Subscribe(h)
       /\ Forget /\ Alone
    \/ (\E h \in DOMAIN handlers : Unsubscribe(h)) /\ Forget /\ Alone
    \/ /\ \E h \in DOMAIN handlers : HandlerUnsubscribe(h)
       /\ RememberUnsubscribe /\ Alone
    \/ (\E ev \in EventNames : GetHandlers(ev)) /\ Forget /\ Alone
    \/ /\ \E s \in Senders, ev \in EventNames, args \in ArgVals :
              Dispatch(s, ev, args)
       /\ Forget /\ Alone
    \/ InvokeObserving /\ Forget /\ Alone
    \/ ReturnObserving /\ Forget /\ Alone
    \/ DispatchReturn /\ Forget /\ Alone

Spec == Init /\ [][Next]_vars

\* the chain protocol: handlers of the three kinds on one pattern, and the
\* outcome of the dispatch before the last one
NextChain ==
    \/ /\ \E prio \in ChainPriorities : Observe(MaxChain, ChainPattern, prio)
       /\ Remember(TRUE) /\ Alone
    \/ /\ \E prio \in ChainPriorities, cb \in InterceptorCallbacks :
              Intercept(MaxChain, ChainPattern, prio, cb)
       /\ Remember(TRUE) /\ Alone
    \/ /\ \E prio \in ChainPriorities : Implement(MaxChain, ChainPattern, prio)
       /\ Remember(TRUE) /\ Alone
    \/ /\ \E s \in Senders, args \in ArgVals : Dispatch(s, ChainEvent, args)
       /\ Remember(FALSE) /\ Alone
    \/ InvokeIntercepting /\ Remember(FALSE) /\ Alone
    \/ ReturnIntercepting /\ Remember(FALSE) /\ Alone
    \/ InvokeObserving /\ Remember(FALSE) /\ Alone
    \/ ReturnObserving /\ Remember(FALSE) /\ Alone
    \/ InvokeImplementing /\ Remember(FALSE) /\ Alone
    \/ ReturnImplementing /\ Remember(FALSE) /\ Alone
    \/ DispatchReturn /\ Remember(FALSE) /\ Alone

SpecChain == Init /\ [][NextChain]_vars

\* the middleware groups under the manager, installed and uninstalled from
\* outside as well
NextMiddleware ==
    \/ (\E g \in Groups : ManagerAdd(MaxGroupHandlers, g)) /\ Forget /\ Alone
    \/ (\E g \in Groups : ManagerRemove(g)) /\ Forget /\ Alone
    \/ (\E g \in Groups : Install(MaxGroupHandlers, g)) /\ Forget /\ Alone
    \/ (\E g \in Groups : Uninstall(g)) /\ Forget /\ Alone
    \/ (\E ev \in EventNames : GetHandlers(ev)) /\ Forget /\ Alone

SpecMiddleware == Init /\ [][NextMiddleware]_vars

\* the same, with the handlers of the groups subscribed and unsubscribed
\* directly as well
NextDirect ==
    \/ (\E g \in Groups : ManagerAdd(MaxDirectHandlers, g)) /\ Forget /\ Alone
    \/ (\E g \in Groups : ManagerRemove(g)) /\ Forget /\ Alone
    \/ (\E g \in Groups : Install(MaxDirectHandlers, g)) /\ Forget /\ Alone
    \/ (\E g \in Groups : Uninstall(g)) /\ Forget /\ Alone
    \/ /\ Entries(PatternOrder) < MaxDirectEntries
       /\ \E h \in DOMAIN handlers : Subscribe(h)
       /\ Forget /\ Alone
    \/ (\E h \in DOMAIN handlers : Unsubscribe(h)) /\ Forget /\ Alone
    \/ (\E h \in DOMAIN handlers : HandlerUnsubscribe(h)) /\ Forget /\ Alone
    \/ (\E ev \in EventNames : GetHandlers(ev)) /\ Forget /\ Alone

SpecDirect == Init /\ [][NextDirect]_vars

\* the two dispatchers side by side, given the same calls of subscribe,
\* unsubscribe and get_handlers_for_event
NextSideBySide ==
    \/ /\ Entries(PatternOrder) < MaxEntries
       /\ \E p \in Patterns, prio \in Priorities :
              /\ Observe(MaxHandlers, p, prio)
              /\ CloudbridgeSubscribe(p, Len(handlers) + 1)
       /\ Forget
    \/ /\ Entries(PatternOrder) < MaxEntries
       /\ \E h \in DOMAIN handlers :
              /\ Subscribe(h)
              /\ CloudbridgeSubscribe(handlers[h].event_pattern, h)
       /\ Forget
    \/ /\ \E h \in DOMAIN handlers :
              /\ Unsubscribe(h)
              /\ CloudbridgeUnsubscribe(h)
       /\ Forget
    \/ /\ \E ev \in EventNames :
              /\ GetHandlers(ev)
              /\ CloudbridgeGetHandlers(ev)
       /\ Forget

SpecSideBySide == Init /\ [][NextSideBySide]_vars

\* registries of up to MaxConflictHandlers Observers, in which more than one
\* priority can be taken twice, and their resolution
NextConflict ==
    \/ /\ \E p \in Patterns, prio \in ConflictPriorities :
              Observe(MaxConflictHandlers, p, prio)
       /\ Forget /\ Alone
    \/ (\E ev \in EventNames : GetHandlers(ev)) /\ Forget /\ Alone

SpecConflict == Init /\ [][NextConflict]_vars

\* a step of a dispatch in flight: the interpreter runs the dispatch on
\* until it returns or raises
DispatchStep ==
    /\ \/ InvokeIntercepting \/ ReturnIntercepting
       \/ InvokeObserving \/ ReturnObserving
       \/ InvokeImplementing \/ ReturnImplementing
       \/ DispatchReturn
    /\ Forget /\ Alone

\* the chain protocol with every dispatch run to its end
NextNested ==
    \/ /\ \E prio \in NestedPriorities :
              Observe(MaxNestedHandlers, ChainPattern, prio)
       /\ Forget /\ Alone
    \/ /\ \E prio \in NestedPriorities, cb \in {"pass_or_own", "stop"} :
              Intercept(MaxNestedHandlers, ChainPattern, prio, cb)
       /\ Forget /\ Alone
    \/ /\ \E prio \in NestedPriorities :
              Implement(MaxNestedHandlers, ChainPattern, prio)
       /\ Forget /\ Alone
    \/ /\ \E s \in Senders, args \in ArgVals : Dispatch(s, ChainEvent, args)
       /\ Forget /\ Alone
    \/ InvokeIntercepting /\ Forget /\ Alone
    \/ ReturnIntercepting /\ Forget /\ Alone
    \/ InvokeObserving /\ Forget /\ Alone
    \/ ReturnObserving /\ Forget /\ Alone
    \/ InvokeImplementing /\ Forget /\ Alone
    \/ ReturnImplementing /\ Forget /\ Alone
    \/ DispatchReturn /\ Forget /\ Alone

SpecNested == Init /\ [][NextNested]_vars /\ WF_vars(DispatchStep)

\* the chain protocol with callbacks that subscribe Observers and
\* unsubscribe handlers while the chain is walked
NextMidFlight ==
    \/ /\ \E prio \in FlightPriorities :
              Observe(MaxFlightHandlers, ChainPattern, prio)
       /\ Forget /\ Alone
    \/ /\ \E prio \in FlightPriorities, cb \in {"pass_or_own", "stop"} :
              Intercept(MaxFlightHandlers, ChainPattern, prio, cb)
       /\ Forget /\ Alone
    \/ /\ \E prio \in FlightPriorities :
              Implement(MaxFlightHandlers, ChainPattern, prio)
       /\ Forget /\ Alone
    \/ /\ \E s \in Senders, args \in ArgVals : Dispatch(s, ChainEvent, args)
       /\ Forget /\ Alone
    \/ BeginObserving /\ Forget /\ Alone
    \/ BeginIntercepting /\ Forget /\ Alone
    \/ BeginImplementing /\ Forget /\ Alone
    \/ CallbackReturns /\ Forget /\ Alone
    \/ (\E t \in DOMAIN handlers : CallbackUnsubscribes(t)) /\ Forget /\ Alone
    \/ /\ \E prio \in FlightPriorities :
              CallbackSubscribes(MaxFlightHandlers, ChainPattern, prio)
       /\ Forget /\ Alone
    \/ ProceedObserving /\ Forget /\ Alone
    \/ ProceedIntercepting /\ Forget /\ Alone
    \/ ProceedImplementing /\ Forget /\ Alone
    \/ ReturnIntercepting /\ Forget /\ Alone
    \/ ReturnObserving /\ Forget /\ Alone
    \/ ReturnImplementing /\ Forget /\ Alone
    \/ DispatchReturn /\ Forget /\ Alone

SpecMidFlight == Init /\ [][NextMidFlight]_vars

\* objects with a @dispatch method under the manager, with Observers of the
\* event and Interceptors in front of the methods subscribed directly, and
\* calls of the method
NextDecorator ==
    \/ (\E o \in Objects : ManagerAdd(MaxDecoratorHandlers, o)) /\ Forget /\ Alone
    \/ (\E o \in Objects : ManagerRemove(o)) /\ Forget /\ Alone
    \/ (\E o \in Objects : SetAttribute(o)) /\ Forget /\ Alone
    \/ /\ \E prio \in DecoratorPriorities :
              Observe(MaxDecoratorHandlers, DecoratorEvent, prio)
       /\ Forget /\ Alone
    \/ /\ \E cb \in {"pass_or_own", "stop"} :
              Intercept(MaxDecoratorHandlers, DecoratorEvent, 1, cb)
       /\ Forget /\ Alone
    \/ /\ \E o \in Objects, args \in ArgVals :
              \E k \in Functions(o) : WrapperCall(o, k, args)
       /\ Forget /\ Alone
    \/ InvokeIntercepting /\ Forget /\ Alone
    \/ ReturnIntercepting /\ Forget /\ Alone
    \/ InvokeObserving /\ Forget /\ Alone
    \/ ReturnObserving /\ Forget /\ Alone
    \/ InvokeImplementing /\ Forget /\ Alone
    \/ ReturnImplementing /\ Forget /\ Alone
    \/ DispatchReturn /\ Forget /\ Alone

SpecDecorator == Init /\ [][NextDecorator]_vars

---------------------------------------------------------------------------
(* Properties of the registry, checked under Spec *)

\* what get_handlers_for_event(ev) returns or raises in the current state
Resolved(ev) == GetHandlersForEvent(handler_cache, ev).res

\* the entries of the registry that a resolution of ev collects
Matching(ev) == MatchingHandlers(PatternOrder, ev)

Before(chain, h1, h2) ==
    \E i, j \in 1..Len(chain) : i < j /\ chain[i] = h1 /\ chain[j] = h2

DistinctPriorities(chain) ==
    \A i, j \in 1..Len(chain) :
        i # j => handlers[chain[i]].priority # handlers[chain[j]].priority

\* two entries that match ev have the same priority
Conflict(ev) == ~DistinctPriorities(Matching(ev))

\* the glob p matches the whole name s, not a part of it
FullMatch(p, s) == RegexMatchAt(p, s)

\* C1: when get_handlers_for_event(E) returns a list, any two subscribed
\* handlers whose patterns match E are both in it, the one of lower priority
\* number first; this holds in every state subscribe and unsubscribe lead to
C1_PriorityOrder ==
    /\ \A ev \in EventNames :
         Resolved(ev).exc = "none" =>
           \A h1, h2 \in SeqToSet(Matching(ev)) :
              handlers[h1].priority < handlers[h2].priority
                 => Before(Resolved(ev).chain, h1, h2)
    /\ (ret.op = "get_handlers_for_event" /\ ret.exc = "none") =>
           \A h1, h2 \in SeqToSet(Matching(ret.event)) :
              handlers[h1].priority < handlers[h2].priority
                 => Before(ret.chain, h1, h2)

\* a list was returned in which a handler subscribed later, to another
\* pattern, comes first because of its priority
C1_Witness ==
    /\ ret.op = "get_handlers_for_event"
    /\ ret.exc = "none"
    /\ Len(ret.chain) >= 2
    /\ ret.chain[1] > ret.chain[2]
    /\ handlers[ret.chain[1]].event_pattern
          # handlers[ret.chain[2]].event_pattern

\* C2: when two entries matching E have equal priority, resolving E and
\* dispatching E raise HandlerException, and every chain returned or cached
\* has pairwise distinct priorities
C2_ConflictRaises ==
    /\ \A ev \in EventNames :
         /\ Conflict(ev) => Resolved(ev).exc = "HandlerException"
         /\ handler_cache[ev] # NoEntry
               => DistinctPriorities(handler_cache[ev])
    /\ ret.op \in {"get_handlers_for_event", "dispatch"} =>
         /\ Conflict(ret.event) => ret.exc = "HandlerException"
         /\ DistinctPriorities(ret.chain)

\* a dispatch raised the conflict for two handlers of different patterns
C2_Witness ==
    /\ ret.op = "dispatch"
    /\ ret.exc = "HandlerException"
    /\ \E h1, h2 \in SeqToSet(ret.names) :
          handlers[h1].event_pattern # handlers[h2].event_pattern

\* C3: every entry of the handler cache is the chain a resolution from
\* scratch produces, and get_handlers_for_event returns or raises what the
\* resolution from scratch does
C3_CacheConsistent ==
    \A ev \in EventNames :
       /\ handler_cache[ev] # NoEntry =>
            /\ CreateHandlerCache(ev).exc = "none"
            /\ handler_cache[ev] = CreateHandlerCache(ev).chain
       /\ Resolved(ev) = CreateHandlerCache(ev)

\* an unsubscribe dropped the entry of one name and kept the non-empty entry
\* of another one
C3_Witness ==
    /\ ret.op = "unsubscribe"
    /\ ret.exc = "none"
    /\ \E e1, e2 \in EventNames :
          /\ handler_cache[e1] = NoEntry
          /\ handler_cache[e2] # NoEntry
          /\ handler_cache[e2] # <<>>
          /\ \E h \in DOMAIN handlers :
                /\ handlers[h].dispatcher = None
                /\ ReSearch(handlers[h].event_pattern, e1)
                /\ ~ReSearch(handlers[h].event_pattern, e2)

\* C4: a handler of pattern P is in the chain resolved for E exactly when P
\* matches the whole of E
C4_Anchored ==
    \A ev \in EventNames :
       Resolved(ev).exc = "none" =>
          \A p \in Patterns :
             \A h \in SeqToSet(events[p]) :
                 h \in SeqToSet(Resolved(ev).chain) <=> FullMatch(p, ev)

---------------------------------------------------------------------------
(* Properties of the chain protocol, checked under SpecChain *)

IsKind(h, kind) == handlers[h].kind = kind

\* a dispatch that resolved a chain has returned or raised
Finished == Idle /\ ret.op = "dispatch" /\ ret.chain # <<>>

\* the handler behind h in the chain the dispatch resolved, None behind the
\* last one
Successor(chain, h) ==
    IF \E i \in 1..(Len(chain) - 1) : chain[i] = h
    THEN chain[(CHOOSE i \in 1..(Len(chain) - 1) : chain[i] = h) + 1]
    ELSE None

IsCallbackEntry(e) == e.what = "callback"

\* the handlers whose callbacks ran, in the order they ran
CallbackOrder ==
    LET calls == SelectSeq(log, IsCallbackEntry)
    IN  [i \in 1..Len(calls) |-> calls[i].h]

PassesOn(h) == handlers[h].callback \in {"pass", "pass_or_own"}

\* the chain of the last dispatch is an Interceptor that invokes its
\* next_handler and returns the result, an Implementer and an Observer
ChainIMO ==
    /\ Len(ret.chain) = 3
    /\ IsKind(ret.chain[1], "Intercepting") /\ PassesOn(ret.chain[1])
    /\ IsKind(ret.chain[2], "Implementing")
    /\ IsKind(ret.chain[3], "Observing")

\* C5: with the chain Interceptor I, Implementer M, Observer O, dispatch
\* runs the three callbacks once each in the order I, M, O and returns what
\* the callback of M returned
C5_ChainScenario ==
    (Finished /\ ChainIMO) =>
        /\ ret.exc = "none"
        /\ ret.val = CallbackValue(ret.chain[2])
        /\ CallbackOrder = ret.chain

C5_Witness == Finished /\ ChainIMO /\ ret.exc = "none"

\* the last two dispatches of the same event, the earlier one having returned
TwoRuns ==
    /\ Idle
    /\ ret.op = "dispatch"
    /\ prev.op = "dispatch"
    /\ prev.event = ret.event
    /\ prev.exc = "none"

\* between the two dispatches Observer o, and nothing else, was subscribed
Added(o) ==
    /\ IsKind(o, "Observing")
    /\ o \notin SeqToSet(prev.chain)
    /\ Len(Matching(ret.event)) = Len(prev.chain) + 1
    /\ SeqToSet(Matching(ret.event)) = SeqToSet(prev.chain) \cup {o}

\* C6 as stated: dispatch returns the same value with the additional
\* Observer as without it
C6_ObserverTransparent ==
    TwoRuns =>
        \A o \in DOMAIN handlers :
            Added(o) => ret.exc = "none" /\ ret.val = prev.val

\* the priority of o is the priority of no handler of the earlier chain
FreshPriority(o) ==
    \A i \in 1..Len(prev.chain) :
        handlers[prev.chain[i]].priority # handlers[o].priority

\* o is the last handler and stands directly behind an Interceptor, which
\* had no next_handler before
BehindLastInterceptor(o) ==
    /\ prev.chain # <<>>
    /\ IsKind(prev.chain[Len(prev.chain)], "Intercepting")
    /\ handlers[prev.chain[Len(prev.chain)]].priority < handlers[o].priority

\* C6 amended: dispatch returns the same value with the additional Observer
\* as without it when the priority of the Observer is that of no other
\* matching handler and the Observer does not become the next_handler of an
\* Interceptor that was the last handler of the chain
C6_ObserverTransparentAmended ==
    TwoRuns =>
        \A o \in DOMAIN handlers :
            (Added(o) /\ FreshPriority(o) /\ ~BehindLastInterceptor(o))
                => ret.exc = "none" /\ ret.val = prev.val

\* an Observer was put in front of a chain of two handlers that returns a
\* value
C6_Witness ==
    /\ TwoRuns
    /\ Len(prev.chain) = 2
    /\ prev.val # None
    /\ \E o \in DOMAIN handlers :
          /\ Added(o) /\ FreshPriority(o) /\ ~BehindLastInterceptor(o)
          /\ ret.chain[1] = o

ObserverEntries(what) ==
    {i \in 1..Len(log) : log[i].what = what /\ IsKind(log[i].h, "Observing")}

\* C7: behind the callback of an Observer its successor in the chain is
\* invoked next, with the event_args and arguments the callback was given,
\* and the invoke of the Observer returns what the successor returned, None
\* without a successor, never the value of its callback
C7_ObserverPropagates ==
    ret.op = "dispatch" =>
      /\ \A i \in ObserverEntries("callback") :
           LET h == log[i].h
               next == Successor(ret.chain, h)
           IN  /\ i < Len(log)
               /\ IF next # None
                  THEN log[i + 1] = InvokeEntry(next, h, log[i].event_args,
                                                log[i].args)
                  ELSE log[i + 1] = ReturnEntry(h, log[i].event_args,
                                                log[i].args, None)
      /\ \A j \in ObserverEntries("return") :
           LET h == log[j].h
               next == Successor(ret.chain, h)
           IN  /\ log[j].val # CallbackValue(h)
               /\ IF next # None
                  THEN /\ log[j - 1].what = "return"
                       /\ log[j - 1].h = next
                       /\ log[j].val = log[j - 1].val
                  ELSE log[j].val = None

\* an Observer returned the value its successor returned
C7_Witness ==
    /\ ret.op = "dispatch"
    /\ \E j \in ObserverEntries("return") :
          /\ Successor(ret.chain, log[j].h) # None
          /\ log[j].val # None

StopEntries ==
    {i \in 1..Len(log) : /\ log[i].what = "callback"
                         /\ IsKind(log[i].h, "Intercepting")
                         /\ handlers[log[i].h].callback = "stop"}

\* C8: when the callback of an Interceptor returns without invoking its
\* next_handler, no handler behind the Interceptor is invoked in this
\* dispatch, nothing is raised, and the invoke of the Interceptor returns
\* the value of the callback
C8_InterceptorTruncates ==
    ret.op = "dispatch" =>
      \A i \in StopEntries :
         LET h == log[i].h
         IN  /\ i < Len(log)
             /\ log[i + 1].what = "return"
             /\ log[i + 1].h = h
             /\ log[i + 1].val = CallbackValue(h)
             /\ ret.exc \in {"running", "none"}
             /\ \A k \in 1..Len(log) :
                   handlers[log[k].h].priority <= handlers[h].priority

\* an Interceptor in front of another handler cut the chain and the dispatch
\* returned its value
C8_Witness ==
    /\ Finished
    /\ ret.exc = "none"
    /\ \E i \in StopEntries :
          /\ Successor(ret.chain, log[i].h) # None
          /\ ret.val = CallbackValue(log[i].h)

ImplementerReturns ==
    {j \in 1..Len(log) : /\ log[j].what = "return"
                         /\ IsKind(log[j].h, "Implementing")}

\* C9: the invoke of an Implementer returns the value its callback returned
C9_ImplementerAuthoritative ==
    \A j \in ImplementerReturns : log[j].val = CallbackValue(log[j].h)

\* an Implementer returned its value after its successor had returned
\* another one
C9_Witness ==
    \E j \in ImplementerReturns :
       /\ j > 1
       /\ log[j - 1].what = "return"
       /\ log[j - 1].h = Successor(ret.chain, log[j].h)
       /\ log[j - 1].val # None
       /\ log[j - 1].val # log[j].val

\* C10: with a non-empty chain dispatch invokes the first handler of the
\* chain, with event_args holding the event and the sender only and with
\* the arguments of the call, invokes no other handler itself, and returns
\* what that invoke returned
C10_DispatchFirstOnly ==
    (ret.op = "dispatch" /\ ret.chain # <<>>) =>
      /\ log # <<>>
      /\ log[1] = InvokeEntry(ret.chain[1], None,
                              EventArgs(ret.event, ret.sender, Absent,
                                        Absent),
                              ret.args)
      /\ \A i \in 2..Len(log) : log[i].what = "invoke" => log[i].by # None
      /\ (Idle /\ ret.exc = "none") =>
            /\ log[Len(log)].what = "return"
            /\ log[Len(log)].h = ret.chain[1]
            /\ ret.val = log[Len(log)].val

\* a dispatch over a chain of three handlers returned a value
C10_Witness ==
    /\ Finished
    /\ ret.exc = "none"
    /\ Len(ret.chain) = 3
    /\ ret.val # None
    /\ Len(log) > 4

\* the invokes of Implementers and the entries of their returns
ImplementerFrames ==
    {f \in (1..Len(log)) \X (1..Len(log)) :
        /\ f[1] < f[2]
        /\ log[f[1]].what = "invoke"
        /\ IsKind(log[f[1]].h, "Implementing")
        /\ log[f[2]].what = "return"
        /\ log[f[2]].h = log[f[1]].h}

\* C23: when the invoke of an Implementer returns, event_args is what it
\* was when the invoke was entered, the next_handler and the result an
\* upstream handler had put there included
C23_ImplementerRestores ==
    \A f \in ImplementerFrames :
        log[f[2]].event_args = log[f[1]].event_args

ImplementerInvokes ==
    {i \in 1..Len(log) : /\ log[i].what = "invoke"
                         /\ log[i].by # None
                         /\ IsKind(log[i].by, "Implementing")}

\* C24: the successor of an Implementer is invoked with the value the
\* callback of the Implementer returned as event_args['result'], an Observer
\* that is this successor is given that result in its callback, and the
\* callback of an Implementer is given the arguments without event_args
C24_SuccessorSeesResult ==
    /\ \A i \in ImplementerInvokes :
          /\ log[i].event_args.result = CallbackValue(log[i].by)
          /\ log[i].h = Successor(ret.chain, log[i].by)
          /\ (IsKind(log[i].h, "Observing") /\ i < Len(log)) =>
                /\ log[i + 1].what = "callback"
                /\ log[i + 1].h = log[i].h
                /\ log[i + 1].with_event_args
                /\ log[i + 1].event_args.result = CallbackValue(log[i].by)
    /\ \A k \in 1..Len(log) :
          (log[k].what = "callback" /\ IsKind(log[k].h, "Implementing"))
             => ~log[k].with_event_args /\ log[k].args = ret.args

\* an Observer directly behind an Implementer was given the value of the
\* Implementer, which another Implementer in front had not returned
C24_Witness ==
    /\ Finished
    /\ \E i \in ImplementerInvokes :
          /\ i < Len(log)
          /\ IsKind(log[i].h, "Observing")
          /\ log[i + 1].what = "callback"
          /\ log[i].event_args.result # Absent
          /\ \E j \in ImplementerInvokes :
                j < i /\ log[j].event_args.result # log[i].event_args.result

\* C25: the event_args the callback of an Observer is given holds no
\* next_handler, wherever the Observer stands in the chain and whatever
\* invoked it
C25_ObserverNoNextHandler ==
    \A i \in ObserverEntries("callback") :
        /\ log[i].with_event_args
        /\ log[i].event_args.next_handler = Absent

\* an Observer in the middle of the chain, which an Interceptor invoked
\* with the Observer itself as the next_handler in event_args, ran its
\* callback
C25_Witness ==
    /\ Finished
    /\ \E i \in ObserverEntries("callback") :
          /\ log[i - 1].what = "invoke"
          /\ log[i - 1].h = log[i].h
          /\ log[i - 1].by # None
          /\ IsKind(log[i - 1].by, "Intercepting")
          /\ log[i - 1].event_args.next_handler = log[i].h
          /\ Successor(ret.chain, log[i].h) # None

Stops(chain) ==
    {i \in 1..Len(chain) : /\ IsKind(chain[i], "Intercepting")
                           /\ handlers[chain[i]].callback = "stop"}

\* the chain up to the first such Interceptor, the whole chain without one
UpToFirstStop(chain) ==
    IF Stops(chain) = {} THEN chain
    ELSE SubSeq(chain, 1,
                CHOOSE i \in Stops(chain) : \A j \in Stops(chain) : i <= j)

NoInterceptor(chain) ==
    \A i \in 1..Len(chain) : ~IsKind(chain[i], "Intercepting")

\* how often the callback of handler h ran
TimesRun(h) ==
    Cardinality({i \in 1..Len(log) : IsCallbackEntry(log[i]) /\ log[i].h = h})

\* C33: a dispatch over a chain of Observers and Implementers only, whose
\* callbacks return and leave the registry alone, runs the callback of
\* every handler of the chain exactly once, in ascending order of priority
C33_NoInterceptorAllRunOnce ==
    (Finished /\ NoInterceptor(ret.chain)) =>
        /\ ret.exc = "none"
        /\ \A h \in DOMAIN handlers :
              TimesRun(h) = IF h \in SeqToSet(ret.chain) THEN 1 ELSE 0
        /\ \A i, j \in 1..Len(log) :
              (i < j /\ IsCallbackEntry(log[i]) /\ IsCallbackEntry(log[j]))
                 => handlers[log[i].h].priority < handlers[log[j].h].priority

\* a dispatch over an Implementer between two Observers, the last handler
\* created first, returned
C33_Witness ==
    /\ Finished
    /\ Len(ret.chain) = 3
    /\ IsKind(ret.chain[1], "Observing")
    /\ IsKind(ret.chain[2], "Implementing")
    /\ IsKind(ret.chain[3], "Observing")
    /\ ret.chain[3] = 1
    /\ TimesRun(ret.chain[3]) = 1

\* the positions of the chain in front of position k at which an
\* Implementer stands
ImplementersBefore(chain, k) ==
    {i \in 1..(k - 1) : IsKind(chain[i], "Implementing")}

Lowest(S) == CHOOSE i \in S : \A j \in S : i <= j

Highest(S) == CHOOSE i \in S : \A j \in S : j <= i

\* C38: in a dispatch over a chain without Interceptors that holds two
\* Implementers or more, an Observer behind two of them is given the return
\* value of the nearest Implementer in front of it as event_args['result'],
\* and dispatch returns the value of the first Implementer of the chain
C38_NearestResultFirstReturn ==
    (Finished /\ NoInterceptor(ret.chain)
       /\ Cardinality(ImplementersBefore(ret.chain, Len(ret.chain) + 1)) >= 2)
    => /\ ret.exc = "none"
       /\ ret.val =
             CallbackValue(ret.chain[
                 Lowest(ImplementersBefore(ret.chain, Len(ret.chain) + 1))])
       /\ \A k \in 1..Len(ret.chain) :
             (/\ IsKind(ret.chain[k], "Observing")
              /\ Cardinality(ImplementersBefore(ret.chain, k)) >= 2) =>
                /\ \E e \in 1..Len(log) :
                      IsCallbackEntry(log[e]) /\ log[e].h = ret.chain[k]
                /\ \A e \in 1..Len(log) :
                      (IsCallbackEntry(log[e]) /\ log[e].h = ret.chain[k]) =>
                         /\ log[e].with_event_args
                         /\ log[e].event_args.result =
                               CallbackValue(ret.chain[
                                  Highest(ImplementersBefore(ret.chain, k))])

\* a dispatch over two Implementers and an Observer behind them returned
\* the value of the first one, and the Observer was given the value of the
\* second one
C38_Witness ==
    /\ Finished
    /\ Len(ret.chain) = 3
    /\ IsKind(ret.chain[1], "Implementing")
    /\ IsKind(ret.chain[2], "Implementing")
    /\ IsKind(ret.chain[3], "Observing")
    /\ ret.val = CallbackValue(ret.chain[1])
    /\ \E e \in 1..Len(log) :
          /\ IsCallbackEntry(log[e])
          /\ log[e].h = ret.chain[3]
          /\ log[e].event_args.result = CallbackValue(ret.chain[2])

\* the position bisect_left finds for handler h in the chain resolved for
\* the event of the dispatch in flight, counted from 0
PositionFound(h) ==
    BisectLeft(Resolved(event_args.event).chain, h, 0,
               Len(Resolved(event_args.event).chain))

\* C35: in a dispatch whose callbacks leave the registry alone, whenever a
\* handler that has its dispatcher looks its successor up, the position
\* bisect_left finds in the resolved chain is the index of the handler
\* itself, and no dispatch ends with a failed assertion or an index out of
\* range
C35_AssertionHolds ==
    /\ (ctl.state = "call" /\ handlers[ctl.h].dispatcher # None) =>
          /\ Resolved(event_args.event).exc = "none"
          /\ PositionFound(ctl.h) < Len(Resolved(event_args.event).chain)
          /\ Resolved(event_args.event).chain[PositionFound(ctl.h) + 1] = ctl.h
    /\ ret.op = "dispatch" => ret.exc \notin {"AssertionError", "IndexError"}

\* the last handler of a chain of three, which was created before the two
\* in front of it, is about to look its successor up
C35_Witness ==
    /\ ctl.state = "call"
    /\ Len(ret.chain) = 3
    /\ ctl.h = ret.chain[3]
    /\ PositionFound(ctl.h) = 2
    /\ ctl.h < ret.chain[1]
    /\ ctl.h < ret.chain[2]

---------------------------------------------------------------------------
(* Properties of dispatch and unsubscription, checked under Spec *)

\* no entry of the registry has a pattern that the resolution of ev selects
NoneMatches(ev) ==
    \A p \in Patterns : events[p] # <<>> => ~ReSearch(p, ev)

\* C11: a dispatch of an event name that no subscribed pattern matches has
\* returned None and raised nothing, and has left no invoke behind
C11_NoHandlersReturnsNone ==
    (ret.op = "dispatch" /\ NoneMatches(ret.event)) =>
        /\ Idle
        /\ ret.exc = "none"
        /\ ret.val = None
        /\ log = <<>>

\* a dispatch returned None after the only handler that matched its event
\* was unsubscribed
C11_Witness ==
    /\ ret.op = "dispatch"
    /\ NoneMatches(ret.event)
    /\ ret.exc = "none"
    /\ \E h \in DOMAIN handlers :
          /\ handlers[h].dispatcher = None
          /\ ReSearch(handlers[h].event_pattern, ret.event)

\* C12: handler.unsubscribe() raises nothing and leaves the handler without
\* a dispatcher; called for a handler that has no dispatcher, as after a
\* first call, it leaves the handlers, the registry and the cache as they are
C12_UnsubscribeIdempotent ==
    [][\A h \in DOMAIN handlers :
          HandlerUnsubscribe(h) =>
             /\ ret'.exc = "none"
             /\ handlers'[h].dispatcher = None
             /\ handlers[h].dispatcher = None =>
                   /\ handlers' = handlers
                   /\ events' = events
                   /\ handler_cache' = handler_cache]_vars

\* the only handler there is had unsubscribe() called twice in a row, and
\* the chain of an event it matched is still cached
C12_Witness ==
    /\ Len(handlers) = 1
    /\ ret.op = "handler.unsubscribe"
    /\ prev.op = "handler.unsubscribe"
    /\ ret.exc = "none"
    /\ handlers[1].dispatcher = None
    /\ \E ev \in EventNames :
          /\ ReSearch(handlers[1].event_pattern, ev)
          /\ handler_cache[ev] = <<>>

\* C13: dispatcher.unsubscribe(h) for a handler that is not in the list of
\* its pattern raises (ValueError) and changes nothing
C13_UnsubscribeAbsentRaises ==
    [][\A h \in DOMAIN handlers :
          (/\ Unsubscribe(h)
           /\ \A i \in 1..Len(events[handlers[h].event_pattern]) :
                  events[handlers[h].event_pattern][i] # h)
             => /\ ret'.exc = "ValueError"
                /\ handlers' = handlers
                /\ events' = events
                /\ handler_cache' = handler_cache]_vars

\* dispatcher.unsubscribe raised for the only handler there is, which an
\* earlier unsubscribe had removed
C13_Witness ==
    /\ Len(handlers) = 1
    /\ ret.op = "unsubscribe"
    /\ ret.exc = "ValueError"
    /\ handlers[1].dispatcher = None
    /\ events[handlers[1].event_pattern] = <<>>

\* the number of entries of the registry that are handler h
Occurrences(h) ==
    Cardinality({i \in 1..Len(events[handlers[h].event_pattern]) :
                    events[handlers[h].event_pattern][i] = h})

\* C17: every handler is in the registry at most once, and its dispatcher is
\* the dispatcher while it is in the registry and None while it is not
C17_OneSubscription ==
    \A h \in DOMAIN handlers :
       /\ Occurrences(h) <= 1
       /\ handlers[h].dispatcher =
             (IF Occurrences(h) >= 1 THEN Dispatcher ELSE None)

\* C20: when dispatcher.unsubscribe(h) or h.unsubscribe() has returned, h is
\* in the chain get_handlers_for_event returns for no event, until h is
\* subscribed again; a handler is without a dispatcher from the return of
\* unsubscribe to its next subscription
C20_UnsubscribedIsGone ==
    \A h \in DOMAIN handlers :
       handlers[h].dispatcher = None =>
          \A ev \in EventNames : h \notin SeqToSet(Resolved(ev).chain)

\* a call of get_handlers_for_event that raised the conflict error left the
\* registry as it was and cached no chain for the event
RaisingKeepsRegistry ==
    (ret'.op = "get_handlers_for_event" /\ ret'.exc = "HandlerException") =>
        /\ events' = events
        /\ handlers' = handlers
        /\ handler_cache'[ret'.event] = NoEntry

\* the resolution r is the chain of the entries m in ascending order of
\* priority
FreshChain(r, m) ==
    /\ r.exc = "none"
    /\ SeqToSet(r.chain) = SeqToSet(m)
    /\ Len(r.chain) = Len(m)
    /\ \A i, j \in 1..Len(r.chain) :
          i < j => handlers[r.chain[i]].priority
                      < handlers[r.chain[j]].priority

\* an event for which no two matching entries share a priority resolves to
\* the matching entries in ascending order of priority
ResolvesFresh(ev) == FreshChain(Resolved(ev), Matching(ev))

\* C36: a call of get_handlers_for_event that raises the conflict error
\* leaves the registry unchanged and caches nothing for the event, and
\* whenever the handlers matching an event have pairwise distinct
\* priorities, after unsubscriptions as well, get_handlers_for_event
\* returns the fresh chain in priority order and a dispatch of the event
\* succeeds
C36_ConflictRecoverable ==
    /\ [][RaisingKeepsRegistry]_vars
    /\ [](\A ev \in EventNames : ~Conflict(ev) => ResolvesFresh(ev))
    /\ []((Idle /\ ret.op = "dispatch" /\ ~Conflict(ret.event))
            => ret.exc = "none")

\* two entries of the registry whose patterns both match ev have the same
\* priority
Colliding(ev) ==
    \E p1, p2 \in Patterns :
       \E i \in 1..Len(events[p1]), j \in 1..Len(events[p2]) :
          /\ p1 # p2 \/ i # j
          /\ ReSearch(p1, ev) /\ ReSearch(p2, ev)
          /\ handlers[events[p1][i]].priority
                = handlers[events[p2][j]].priority

\* subscribe never fails, the conflict error is raised for no name but one
\* that two entries of equal priority both match, and a name without such
\* entries resolves to the chain of the handlers that match it
ResolutionSurfacesNothing ==
    /\ ret.op \in {"observe", "subscribe"} => ret.exc = "none"
    /\ \A ev \in EventNames :
          IF Colliding(ev) THEN Resolved(ev).exc = "HandlerException"
          ELSE ResolvesFresh(ev)

\* a dispatch raises the conflict error for no name but one that two
\* entries of equal priority both match, and a dispatch of another name
\* that some handler matches starts with the first handler of its chain
DispatchSurfacesNothing ==
    ret.op = "dispatch" =>
        /\ ret.exc = "HandlerException" <=> Colliding(ret.event)
        /\ (~Colliding(ret.event) /\ ret.chain # <<>>) =>
               /\ log # <<>>
               /\ log[1].what = "invoke"
               /\ log[1].h = ret.chain[1]

---------------------------------------------------------------------------
(* A property of dispatch, checked under SpecChain *)

\* C19: no step of a dispatch, from its call over the invokes and returns of
\* the handlers to its return or to the exception that leaves it, changes
\* the registry or the dispatcher of a handler
C19_DispatchKeepsRegistry ==
    [][ret'.op = "dispatch" => (events' = events /\ handlers' = handlers)]_vars

\* the callback of an Interceptor at the end of the chain raised, behind an
\* invoke of another handler that the exception left, and every handler is
\* subscribed as before
C19_Witness ==
    /\ Idle
    /\ ret.op = "dispatch"
    /\ ret.exc = "AttributeError"
    /\ Len(ret.chain) >= 2
    /\ handlers[ret.chain[Len(ret.chain)]].callback = "pass"
    /\ \E i \in 1..Len(log) :
          /\ log[i].what = "callback"
          /\ log[i].h = ret.chain[Len(ret.chain)]
    /\ events[ChainPattern] = [h \in DOMAIN handlers |-> h]
    /\ \A h \in DOMAIN handlers : handlers[h].dispatcher = Dispatcher

\* the one sequence of the handlers of the set S in strictly ascending
\* order of priority: it depends on S alone, not on any order of S
InPriorityOrder(S) ==
    CHOOSE s \in [1..Cardinality(S) -> S] :
        \A i, j \in 1..Cardinality(S) :
            i < j => handlers[s[i]].priority < handlers[s[j]].priority

\* C22: when the subscribed handlers that match E have pairwise different
\* priorities, get_handlers_for_event(E) is the sequence of this set of
\* handlers in ascending priority, whatever the order in which they were
\* subscribed and stand in the registry
C22_OrderByPriorityOnly ==
    /\ \A ev \in EventNames :
          Resolved(ev).exc = "none" =>
             Resolved(ev).chain = InPriorityOrder(SeqToSet(Matching(ev)))
    /\ (ret.op = "get_handlers_for_event" /\ ret.exc = "none") =>
          ret.chain = InPriorityOrder(SeqToSet(Matching(ret.event)))

\* a chain of two handlers of one pattern was returned, the registry
\* holding them in the opposite order, with the younger handler subscribed
\* first
C22_Witness ==
    /\ ret.op = "get_handlers_for_event"
    /\ ret.exc = "none"
    /\ Len(ret.chain) = 2
    /\ ret.chain[1] < ret.chain[2]
    /\ \E p \in Patterns : events[p] = <<ret.chain[2], ret.chain[1]>>

---------------------------------------------------------------------------
(* Properties of the middleware, checked under SpecMiddleware *)

\* group g is installed once, or not at all, since it was last uninstalled
InstalledOnce(g) == Len(event_handlers[g]) = Len(Declared(g))

NotInstalled(g) == event_handlers[g] = <<>>

\* the callbacks of the handlers of a chain
MethodsOf(chain) == [i \in 1..Len(chain) |-> bound_method[chain[i]]]

\* the methods of the groups in `installed` whose pattern selects ev
MatchingMethods(ev, installed) ==
    { m \in UNION { {Method(g, k) : k \in 1..Len(Declared(g))} :
                        g \in installed } :
         ReSearch(Declared(m[1])[m[2]].event_pattern, ev) }

DeclaredPriority(m) == Declared(m[1])[m[2]].priority

\* methods is the union of the matching methods of the groups in
\* `installed`, in the order of their priorities
PriorityOrderedUnion(methods, ev, installed) ==
    /\ Len(methods) = Cardinality(MatchingMethods(ev, installed))
    /\ SeqToSet(methods) = MatchingMethods(ev, installed)
    /\ \A i, j \in 1..Len(methods) :
           i < j => DeclaredPriority(methods[i]) < DeclaredPriority(methods[j])

\* C14: whenever some groups are installed once and the others not at all,
\* as G2 alone is after add(G1), add(G2), remove(G1) and as both are after
\* add(G1) follows, get_handlers_for_event(E) returns for every E the
\* callbacks of the installed groups that match E, in priority order
C14_RemoveAndAddAgain ==
    \A installed \in SUBSET Groups :
       (/\ \A g \in installed : InstalledOnce(g)
        /\ \A g \in Groups \ installed : NotInstalled(g))
          => \A ev \in EventNames :
                /\ Resolved(ev).exc = "none"
                /\ PriorityOrderedUnion(MethodsOf(Resolved(ev).chain), ev,
                                        installed)

\* add(G1), add(G2), remove(G1) and add(G1) were called in this order: G1
\* has a new handler, behind the first handler of G2 in the chain of a.b
C14_Witness ==
    /\ ret.op = "add"
    /\ middleware_list = <<"G2", "G1">>
    /\ Len(handlers) = 4
    /\ bound_method[1] = Method("G1", 1)
    /\ handlers[1].dispatcher = None
    /\ event_handlers["G1"] = <<4>>
    /\ event_handlers["G2"] = <<2, 3>>
    /\ Resolved(<<"a", ".", "b">>).chain = <<2, 4, 3>>

\* C18: add(g) installs g once on the dispatcher of the manager, with new
\* handlers that are subscribed once, and appends g to the tracked list;
\* remove(g) of a tracked group uninstalls g and drops it from the list once;
\* nothing else changes the tracked list
C18_AddTracksRemoveForgets ==
    [][/\ ret'.op = "add" =>
            \E g \in Groups :
               /\ middleware_list' = Append(middleware_list, g)
               /\ Len(handlers') = Len(handlers) + Len(Declared(g))
               /\ event_handlers' =
                      [event_handlers EXCEPT ![g] = @ \o Discovered(g)]
               /\ middleware_events'[g] = Dispatcher
               /\ \A h \in SeqToSet(Discovered(g)) :
                      /\ handlers'[h].dispatcher = Dispatcher
                      /\ Cardinality(
                            {i \in 1..Len(events'[handlers'[h].event_pattern]) :
                                events'[handlers'[h].event_pattern][i] = h}) = 1
       /\ (ret'.op = "remove" /\ ret'.exc = "none") =>
            \E g \in SeqToSet(middleware_list) :
               /\ middleware_list' = RemoveFirst(middleware_list, g)
               /\ event_handlers' = [event_handlers EXCEPT ![g] = <<>>]
               /\ middleware_events'[g] = None
               /\ \A h \in SeqToSet(event_handlers[g]) :
                      handlers'[h].dispatcher = None
       /\ (ret'.op \notin {"add", "remove"} \/ ret'.exc # "none") =>
            middleware_list' = middleware_list]_vars

\* add(G1), add(G2) and remove(G1) were called: G2 alone is tracked and
\* installed
C18_Witness ==
    /\ ret.op = "remove"
    /\ ret.exc = "none"
    /\ middleware_list = <<"G2">>
    /\ Len(handlers) = 3
    /\ bound_method[1] = Method("G1", 1)
    /\ event_handlers = [g \in DOMAIN event_handlers |->
                             IF g = "G2" THEN <<2, 3>> ELSE <<>>]
    /\ middleware_events["G1"] = None
    /\ middleware_events["G2"] = Dispatcher

\* C39: when manager.remove(m) raises because m is not in the list of the
\* manager, m is left as it was: its handlers are subscribed as before, its
\* handler list and its dispatcher are unchanged, and so is the list of the
\* manager
C39_RemoveAllOrNothing ==
    [][\A g \in Groups :
          (/\ ManagerRemove(g)
           /\ g \notin SeqToSet(middleware_list)
           /\ ret'.exc = "ValueError") =>
              /\ events' = events
              /\ handlers' = handlers
              /\ event_handlers' = event_handlers
              /\ middleware_events' = middleware_events
              /\ middleware_list' = middleware_list
      ]_vars

---------------------------------------------------------------------------
(* Properties of the middleware, checked under SpecDirect *)

\* C15: when uninstall() of a group has returned, the handler list of the
\* group is empty, the handlers that were in it have no dispatcher and none
\* of them is in the chain get_handlers_for_event returns for any event
C15_UninstallDetaches ==
    [][\A g \in Groups :
          (Uninstall(g) /\ ret'.exc = "none") =>
             /\ event_handlers'[g] = <<>>
             /\ \A h \in SeqToSet(event_handlers[g]) :
                   /\ handlers'[h].dispatcher = None
                   /\ \A ev \in EventNames :
                         h \notin SeqToSet(Resolved(ev).chain)']_vars

\* handler h is subscribed: it is in the registry and has its dispatcher
Subscribed(h) == InRegistry(h) /\ handlers[h].dispatcher = Dispatcher

\* C16: the event_handlers list of every group holds exactly the handlers
\* discovered for the group that are subscribed
C16_ListIsSubscribed ==
    \A g \in Groups :
       SeqToSet(event_handlers[g]) =
          { h \in DOMAIN bound_method :
               bound_method[h][1] = g /\ Subscribed(h) }

---------------------------------------------------------------------------
(* Properties of the decorator dispatch, checked under SpecDecorator *)

\* the last call of the API was a call of the wrapper on object o
CalledOn(o) == ret.op \in {"wrapper", "dispatch"} /\ ret.sender = o

\* the wrapper raised because it found no dispatcher
NoDispatcherFound(r) ==
    r.op = "wrapper" /\ r.exc = "HandlerException" /\ r.priority = None

\* the handlers in the registry whose callback is function 1 bound to o
HandlersOf(o) ==
    {h \in DOMAIN bound_method :
        bound_method[h] = Method(o, 1) /\ Subscribed(h)}

\* what the functions reachable on o return, called directly or as the
\* callback of a handler
FunctionResults(o) ==
    {DirectValue(o, k) : k \in Functions(o)} \cup HandlersOf(o)

\* C27: a call of the decorated method on an object whose dispatcher
\* attribute is not set raises HandlerException and runs neither the
\* function nor any handler; with the attribute set the call does not raise
\* for a missing dispatcher, and it returns the result of the function when
\* no handler but the one of the function is subscribed for the event
C27_NoDispatcherRaises ==
    \A o \in Objects :
       CalledOn(o) =>
          IF object_events[o] = None
          THEN /\ NoDispatcherFound(ret)
               /\ Idle
               /\ log = <<>>
          ELSE /\ ~NoDispatcherFound(ret)
               /\ (Idle /\ SeqToSet(Matching(DecoratorEvent)) \subseteq
                                HandlersOf(o)
                         /\ Len(Matching(DecoratorEvent)) <= 1) =>
                     /\ ret.exc = "none"
                     /\ ret.val \in FunctionResults(o)

\* the call on an object that the manager had added, and whose handler is
\* subscribed, raised for the missing dispatcher
C27_Witness ==
    /\ NoDispatcherFound(ret)
    /\ object_events[ret.sender] = None
    /\ HandlersOf(ret.sender) # {}
    /\ ret.sender \in SeqToSet(middleware_list)
    /\ Matching(DecoratorEvent) # <<>>

\* a call of the decorated method on o went through the dispatcher and
\* returned
Dispatched(o) ==
    /\ Finished
    /\ ret.sender = o
    /\ ret.exc = "none"

\* the handler of the chain whose callback is the function bound to o
HandlerOf(o) == CHOOSE h \in SeqToSet(ret.chain) : h \in HandlersOf(o)

\* the entries of the trace in which the function bound to o ran, as a
\* callback or called by the wrapper
Runs(o) ==
    {i \in 1..Len(log) :
        \/ log[i].what = "direct"
        \/ log[i].what = "callback" /\ log[i].h \in HandlersOf(o)}

Leads(chain, h) ==
    \A i \in 1..Len(chain) :
        handlers[chain[i]].priority < handlers[h].priority =>
            \/ IsKind(chain[i], "Observing")
            \/ IsKind(chain[i], "Intercepting") /\ PassesOn(chain[i])

ResolvedCallbacks ==
    {bound_method[h] :
        h \in SeqToSet(Resolved(DecoratorEvent).chain) \cap DOMAIN bound_method}

\* C29: a call of the decorated method on an object with a dispatcher, for
\* a function that is not the callback of a handler resolved for the event,
\* calls the function once with the arguments of the call, returns its
\* value, invokes no handler and leaves the registry as it is
C29_UnregisteredCallsDirectly ==
    [][\A o \in Objects, args \in ArgVals :
         \A k \in Functions(o) :
            (/\ WrapperCall(o, k, args)
             /\ object_events[o] # None
             /\ Resolved(DecoratorEvent).exc = "none"
             /\ Method(o, k) \notin ResolvedCallbacks) =>
                /\ ret' = WrapperRet(o, args, "none", DirectValue(o, k), None,
                                     <<>>)
                /\ log' = <<DirectEntry(args, DirectValue(o, k))>>
                /\ ctl' = IdleControl
                /\ events' = events
                /\ handlers' = handlers]_vars

\* the function of the parent class was called on D2 and ran alone, while
\* the handler of the function that overrides it and another handler of
\* the event were subscribed
C29_Witness ==
    /\ ret.op = "wrapper"
    /\ ret.exc = "none"
    /\ ret.sender = "D2"
    /\ ret.val = DirectValue("D2", Overridden)
    /\ log = <<DirectEntry(ret.args, ret.val)>>
    /\ HandlersOf("D2") # {}
    /\ Len(Matching(DecoratorEvent)) >= 2

---------------------------------------------------------------------------
(* Properties of callbacks that change the registry, checked under         *)
(* SpecMidFlight                                                           *)

\* the entries of the trace in which a callback subscribed or unsubscribed
\* a handler
Effects ==
    {i \in 1..Len(log) : log[i].what \in {"subscribe", "unsubscribe"}}

\* the failures of the successor lookup: the dispatcher of the handler is
\* None, or the handler is not where bisect_left looks for it
InternalFailures == {"AttributeError", "AssertionError", "IndexError"}

\* C21: a dispatch in which a callback subscribed a handler or unsubscribed
\* one, the running handler or one further down the chain included, ends
\* without a failure of the successor lookup
C21_MidFlightSafe ==
    (Idle /\ ret.op = "dispatch" /\ Effects # {}) =>
        ret.exc \notin InternalFailures

\* the handler whose successor is looked up in this step, None in a step
\* without a lookup
LooksUp ==
    IF ctl.state = "call" /\ handlers[ctl.h].kind # "Implementing"
       THEN ctl.h
    ELSE IF ctl.state = "proceed" /\ handlers[ctl.h].kind = "Implementing"
       THEN ctl.h
    ELSE None

\* the successor the lookup of this step found, Absent when it raised
LookedUp ==
    IF ctl'.state = "callback" THEN ctl'.val
    ELSE IF ctl'.state = "call" THEN ctl'.h
    ELSE IF ctl'.state = "return" THEN None
    ELSE Absent

\* C30: the lookup of the successor of a handler h that is in the chain
\* get_handlers_for_event resolves at this moment finds the handler behind
\* h in this chain, None when h is the last one, never h, a handler in
\* front of h, or a handler that has left the registry since the dispatch
\* started
C30_LookupAtInvokeTime ==
    [][(/\ LooksUp # None
        /\ Resolved(event_args.event).exc = "none"
        /\ handlers[LooksUp].dispatcher # None
        /\ LooksUp \in SeqToSet(Resolved(event_args.event).chain)) =>
           /\ LookedUp = Successor(Resolved(event_args.event).chain, LooksUp)
           /\ LookedUp # LooksUp
           /\ LookedUp # None =>
                 /\ handlers[LooksUp].priority < handlers[LookedUp].priority
                 /\ handlers[LookedUp].dispatcher # None
                 /\ LookedUp \in SeqToSet(Matching(event_args.event))
      ]_vars

\* an Implementer that was the last handler when the dispatch started
\* invokes the Observer its callback subscribed behind it
C30_Witness ==
    /\ ctl.state = "call"
    /\ stack # <<>>
    /\ IsKind(stack[Len(stack)].h, "Implementing")
    /\ Successor(ret.chain, stack[Len(stack)].h) = None
    /\ ctl.h \notin SeqToSet(ret.chain)
    /\ \E i \in Effects : log[i].what = "subscribe" /\ log[i].h = ctl.h

---------------------------------------------------------------------------
(* A property of the two invalidation strategies, checked under            *)
(* SpecSideBySide                                                          *)

\* what get_handlers_for_event(ev) of cloudbridge returns or raises in the
\* current state
CloudbridgeResolved(ev) ==
    CloudbridgeGetHandlersForEvent(cloudbridge, ev).res

\* C31: given the same calls of subscribe, unsubscribe and
\* get_handlers_for_event, the dispatcher that deletes the cached names the
\* mutated pattern matches and the one that clears the whole cache return
\* the same chain, or raise the same error, at the call of
\* get_handlers_for_event that was made and at any that could be made next
C31_SelectiveEqualsFull ==
    /\ ret.op = "get_handlers_for_event" =>
          cloudbridge.res =
             Resolution(ret.exc, ret.chain, ret.priority, ret.names)
    /\ \A ev \in EventNames : Resolved(ev) = CloudbridgeResolved(ev)

\* both returned the same chain of two handlers for one name while the
\* chain cached for the other name survived the last mutation in
\* pyeventsystem and was cleared in cloudbridge
C31_Witness ==
    /\ ret.op = "get_handlers_for_event"
    /\ ret.exc = "none"
    /\ Len(ret.chain) = 2
    /\ cloudbridge.res.chain = ret.chain
    /\ \E e \in EventNames :
          /\ e # ret.event
          /\ handler_cache[e] \notin {NoEntry, <<>>}
          /\ cloudbridge.handler_cache[e] = NoEntry

---------------------------------------------------------------------------
(* A property of the conflict error, checked under SpecConflict *)

\* the entries of the registry that match ev and have priority p
MatchingAt(ev, p) ==
    SelectSeq(Matching(ev), LAMBDA h : handlers[h].priority = p)

\* the priorities that two entries matching ev share
Collisions(ev) ==
    {p \in ConflictPriorities : Len(MatchingAt(ev, p)) >= 2}

\* C32: the conflict error raised when resolving E names E, the smallest
\* priority that two handlers matching E share, and the callbacks of
\* exactly the handlers matching E that have this priority
C32_ConflictNamesCulprits ==
    (ret.op = "get_handlers_for_event" /\ ret.exc = "HandlerException") =>
        /\ ret.event \in EventNames
        /\ ret.priority \in Collisions(ret.event)
        /\ \A q \in Collisions(ret.event) : ret.priority <= q
        /\ SeqToSet(ret.names) = SeqToSet(MatchingAt(ret.event, ret.priority))
        /\ Len(ret.names) = Len(MatchingAt(ret.event, ret.priority))

\* two priorities collide for the name and the error names the lower one,
\* with its two handlers, which are of different patterns
C32_Witness ==
    /\ ret.op = "get_handlers_for_event"
    /\ ret.exc = "HandlerException"
    /\ Cardinality(Collisions(ret.event)) = 2
    /\ Len(ret.names) = 2
    /\ handlers[ret.names[1]].event_pattern
          # handlers[ret.names[2]].event_pattern

---------------------------------------------------------------------------
(* A property of the nesting of invoke calls, checked under SpecNested *)

\* the handlers whose invoke is running, the outermost first
Running ==
    [i \in 1..Len(stack) |-> stack[i].h]
       \o (IF ctl.state = "call" THEN <<ctl.h>> ELSE <<>>)

\* every invoke that is running was called by a handler of strictly lower
\* priority number, no handler is entered again below itself, and the
\* nesting is no deeper than the chain is long
NestedByPriority ==
    /\ \A i, j \in 1..Len(Running) :
          i < j => /\ handlers[Running[i]].priority
                        < handlers[Running[j]].priority
                   /\ Running[i] # Running[j]
    /\ ~Idle => Len(Running) <= Len(ret.chain)

\* C34: the successor a handler invokes has a strictly greater priority, so
\* the invoke calls nest no deeper than the resolved chain is long, no
\* handler is entered again from its own downstream chain, and every
\* dispatch whose callbacks return and subscribe nothing comes to its end
C34_DispatchTerminates ==
    /\ []NestedByPriority
    /\ (~Idle) ~> Idle

\* three invoke calls are nested: an Interceptor invoked an Observer that
\* invoked the last handler of the chain
C34_Witness ==
    /\ Len(Running) = 3
    /\ Len(stack) = 2
    /\ IsKind(stack[1].h, "Intercepting")
    /\ IsKind(stack[2].h, "Observing")
    /\ Len(ret.chain) = 3

====
